---- MODULE Spec2Model ----
(***************************************************************************)
(* A model of CodeComprehender's structural extraction and symbol index   *)
(* (code_parser.py), relationship derivation (diagram_builder.py) and      *)
(* driver (main.py, which runs its own extractor).                         *)
(*                                                                         *)
(* The javalang syntax tree is modelled as nested records.  Every walkable *)
(* value has the same shape:                                               *)
(*   tag       "node" (a javalang Node), "list" (a Python list) or         *)
(*             "scalar" (a string, a set or None: never walked)            *)
(*   kind      the Node class, e.g. "ClassDeclaration"                     *)
(*   name      the node's name attribute, or None                          *)
(*   qualifier the qualifier attribute of a Primary, or None               *)
(*   position  <<>> for position None, <<line>> for a Position             *)
(*   modifiers the modifiers attribute (a set of strings)                  *)
(*   children  the walkable attribute values, in attrs order (for a list:  *)
(*             its items)                                                  *)
(***************************************************************************)
EXTENDS Integers, Sequences, FiniteSets, TLC

VARIABLES
    pc,                 \* which operation has run in this behaviour
    node,               \* span reconstruction: the node handed to get_*_line
    span,               \* span reconstruction: [start_line, end_line] returned
    snip,               \* snippet extraction: [lines, start_line, end_line] arguments
    snippet,            \* snippet extraction: the string returned
    file,               \* extraction: the file handed to parse_java_file
    project_class_index,\* extraction: the symbol index, class name -> package
    parsed,             \* extraction: what parse_java_file returned
    all_parsed_data,    \* the driver's list of results, input of the diagram
    packages,           \* DiagramBuilder.packages, in insertion order
    relationships,      \* DiagramBuilder.relationships
    buffer,             \* DiagramBuilder.buffer
    diagram,            \* what generate_architecture_diagram returned
    java_files,         \* the batch: the files handed to the index pass or the driver's loop
    cursor,             \* the driver's loop: how many files of the batch it has handled
    llm,                \* get_llm_comment: its arguments, loop counter, calls, waits, result
    annotation,         \* generate_comments_for_structure: client, calls made, structure returned
    fmt,                \* format_field / format_method: the member and the two strings returned
    files_written,      \* the output directory: file name -> what was written to it
    rebuilt             \* DiagramBuilder.build: what a second call returned

vars == <<pc, node, span, snip, snippet, file, project_class_index, parsed,
          all_parsed_data, packages, relationships, buffer, diagram,
          java_files, cursor, llm, annotation, fmt, files_written, rebuilt>>

\* comment generation, member formatting and file output
output_vars == <<llm, annotation, fmt, files_written, rebuilt>>

----------------------------------------------------------------------------
(* Bounds of the model *)

MaxLine == 2        \* source lines a position may name: 1..MaxLine
MaxKids == 2        \* children of the root of a span tree
MaxLen == 3         \* lines of the buffer handed to get_code_from_lines
MaxTypes == 2       \* top-level type declarations of a file
MaxMembers == 2     \* members of a class body in the dependency scenarios
MaxFiles == 2       \* parsed files handed to generate_architecture_diagram
MaxBatch == 2       \* files of a batch: of the index pass, of the driver's loop

----------------------------------------------------------------------------
(* Python values *)

None == "None"                      \* None, for string-valued attributes
NoPosition == <<>>                  \* node.position is None
Position(line) == <<line>>          \* node.position.line = line
PyNone == <<>>                      \* None, where an int is expected
PyInt(n) == <<n>>                   \* an int
Falsy(v) == v = PyNone \/ v = PyInt(0)

Min(a, b) == IF a < b THEN a ELSE b

Node(kind, name, qualifier, position, modifiers, children) ==
    [tag |-> "node", kind |-> kind, name |-> name, qualifier |-> qualifier,
     position |-> position, modifiers |-> modifiers, children |-> children]

List(items) ==
    [tag |-> "list", kind |-> "list", name |-> None, qualifier |-> None,
     position |-> NoPosition, modifiers |-> {}, children |-> items]

Scalar(value) ==
    [tag |-> "scalar", kind |-> "scalar", name |-> value, qualifier |-> None,
     position |-> NoPosition, modifiers |-> {}, children |-> <<>>]

----------------------------------------------------------------------------
(* javalang.ast.walk_tree and Node.filter, as the extractor uses them *)

RECURSIVE walk_tree(_)
RECURSIVE WalkChildren(_, _, _)

\* for child in children: if isinstance(child, (Node, list, tuple)):
\*     for path, node in walk_tree(child): yield (root,) + path, node
WalkChildren(root, children, i) ==
    IF i > Len(children) THEN <<>>
    ELSE LET child == children[i]
             sub == IF child.tag \in {"node", "list"} THEN walk_tree(child) ELSE <<>>
         IN  [k \in 1..Len(sub) |->
                 [path |-> <<root>> \o sub[k].path, node |-> sub[k].node]]
             \o WalkChildren(root, children, i + 1)

\* The (path, node) pairs of a depth-first, pre-order walk; only Nodes are
\* yielded, while lists are descended into and appear in the paths.
walk_tree(root) ==
    (IF root.tag = "node" THEN << [path |-> <<>>, node |-> root] >> ELSE <<>>)
    \o WalkChildren(root, root.children, 1)

\* node.filter(pattern): the walk's pairs whose node is an instance of pattern.
\* kinds is the set of classes that are pattern or subclasses of it.
filter(root, kinds) ==
    SelectSeq(walk_tree(root), LAMBDA e : e.node.kind \in kinds)

----------------------------------------------------------------------------
(* Span reconstruction and snippet extraction *)

\* lines[start_line - 1: end_line] for 0 <= start_line - 1: a Python slice
\* clips at the end of the list and is empty when it starts past its end.
Slice(lines, lo, hi) == SubSeq(lines, lo + 1, Min(hi, Len(lines)))

RECURSIVE Join(_)
\* "".join(parts)
Join(parts) == IF parts = <<>> THEN "" ELSE Head(parts) \o Join(Tail(parts))

get_code_from_lines_first_line_dropped(lines, start_line, end_line) ==
    IF Falsy(start_line) \/ Falsy(end_line) THEN ""
    ELSE Join(Slice(lines, start_line[1], end_line[1]))

get_code_from_lines(lines, start_line, end_line) ==
    IF Falsy(start_line) \/ Falsy(end_line) THEN ""
    ELSE Join(Slice(lines, start_line[1] - 1, end_line[1]))

\* a bug: a node without a position is taken to start on the first line
get_start_line_defaults_to_first_line(n) ==
    IF n.position # NoPosition THEN n.position[1] ELSE 1

get_start_line(n) == IF n.position # NoPosition THEN n.position[1] ELSE 0

RECURSIVE MaxLineFrom(_, _, _)
\* the loop of get_end_line over walk_tree(node), from item i on
MaxLineFrom(walk, i, max_line) ==
    IF i > Len(walk) THEN max_line
    ELSE LET child == walk[i].node
         IN  IF child.position = NoPosition
             THEN MaxLineFrom(walk, i + 1, max_line)
             ELSE IF child.position[1] > max_line
                  THEN MaxLineFrom(walk, i + 1, child.position[1])
                  ELSE MaxLineFrom(walk, i + 1, max_line)

get_end_line_children_only(n) ==
    MaxLineFrom([k \in 1..Len(n.children) |-> [path |-> <<n>>, node |-> n.children[k]]],
                1, get_start_line(n)) + 1

get_end_line_no_increment(n) ==
    MaxLineFrom(walk_tree(n), 1, get_start_line(n))

get_end_line(n) ==
    MaxLineFrom(walk_tree(n), 1, get_start_line(n)) + 1

----------------------------------------------------------------------------
(* The javalang node classes the extractor reads.  children lists the      *)
(* walkable attributes in javalang's attrs order.                          *)

\* ReferenceType: attrs name, dimensions, arguments, sub_type
ReferenceType(name, arguments) ==
    Node("ReferenceType", name, None, NoPosition, {},
         <<IF arguments = <<>> THEN Scalar(None) ELSE List(arguments), Scalar(None)>>)

\* BasicType: attrs name, dimensions
BasicType(name) == Node("BasicType", name, None, NoPosition, {}, <<>>)

\* TypeArgument: attrs type, pattern_type; it has no name attribute
TypeArgument(type) == Node("TypeArgument", None, None, NoPosition, {}, <<type>>)

\* MethodInvocation: attrs ..., qualifier, selectors, type_arguments, arguments, member
MethodInvocation(qualifier, member, line) ==
    Node("MethodInvocation", member, qualifier, Position(line), {}, <<List(<<>>)>>)

\* MemberReference: attrs ..., qualifier, selectors, member
MemberReference(qualifier, member, line) ==
    Node("MemberReference", member, qualifier, Position(line), {}, <<>>)

\* StatementExpression: attrs label, expression
StatementExpression(expression, line) ==
    Node("StatementExpression", None, None, Position(line), {}, <<expression>>)

\* VariableDeclarator: attrs name, dimensions, initializer
VariableDeclarator(name, initializer) ==
    Node("VariableDeclarator", name, None, NoPosition, {}, <<initializer>>)

\* LocalVariableDeclaration: attrs modifiers, annotations, type, declarators
LocalVariableDeclaration(type, name, line) ==
    Node("LocalVariableDeclaration", None, None, Position(line), {},
         <<List(<<>>), type, List(<<VariableDeclarator(name, Scalar(None))>>)>>)

\* FormalParameter: attrs modifiers, annotations, type, name, varargs
FormalParameter(type, name) ==
    Node("FormalParameter", name, None, NoPosition, {}, <<List(<<>>), type>>)

\* MethodDeclaration: attrs documentation, modifiers, annotations,
\* type_parameters, return_type, name, parameters, throws, body
MethodDeclaration(name, position, modifiers, parameters, body) ==
    Node("MethodDeclaration", name, None, position, modifiers,
         <<List(<<>>), Scalar(None), Scalar(None), List(parameters), Scalar(None), body>>)

\* ConstructorDeclaration: attrs documentation, modifiers, annotations,
\* type_parameters, name, parameters, throws, body
ConstructorDeclaration(name, position, parameters, body) ==
    Node("ConstructorDeclaration", name, None, position, {},
         <<List(<<>>), Scalar(None), List(parameters), Scalar(None), body>>)

\* FieldDeclaration: attrs documentation, modifiers, annotations, type, declarators
FieldDeclaration(position, modifiers, type, declarators) ==
    Node("FieldDeclaration", None, None, position, modifiers,
         <<List(<<>>), type, List(declarators)>>)

\* ClassDeclaration: attrs modifiers, annotations, documentation, name, body,
\* type_parameters, extends, implements
ClassDeclaration(name, position, modifiers, body, extends, implements) ==
    Node("ClassDeclaration", name, None, position, modifiers,
         <<List(<<>>), List(body), Scalar(None), extends, implements>>)

\* InterfaceDeclaration: attrs modifiers, annotations, documentation, name,
\* body, type_parameters, extends
InterfaceDeclaration(name, position, body) ==
    Node("InterfaceDeclaration", name, None, position, {},
         <<List(<<>>), List(body), Scalar(None), Scalar(None)>>)

\* PackageDeclaration: attrs modifiers, annotations, documentation, name
PackageDeclaration(name) ==
    Node("PackageDeclaration", name, None, NoPosition, {}, <<List(<<>>)>>)

\* CompilationUnit: attrs package, imports, types
CompilationUnit(package, types) ==
    Node("CompilationUnit", None, None, NoPosition, {},
         <<package, List(<<>>), List(types)>>)

\* attribute access
annotations_of(decl) == decl.children[1].children
field_type(field) == field.children[2]
declarators_of(field) == field.children[3].children
extends_of(class_decl) == class_decl.children[4]
implements_of(class_decl) == class_decl.children[5]
package_of(tree) == tree.children[1]
types_of(tree) == tree.children[3].children

\* bool(x) of an attribute value: None and the empty list are falsy
Truthy(v) ==
    \/ v.tag = "node"
    \/ v.tag = "list" /\ v.children # <<>>
    \/ v.tag = "scalar" /\ v.name # None

----------------------------------------------------------------------------
(* code_parser.py: member extraction and dependency discovery *)

\* the node classes matched by isinstance(node, pattern)
ClassDeclarationT == {"ClassDeclaration"}
MethodDeclarationT == {"MethodDeclaration"}
FieldDeclarationT == {"FieldDeclaration", "ConstantDeclaration"}
MethodInvocationT == {"MethodInvocation"}
MemberReferenceT == {"MemberReference"}
ReferenceTypeT == {"ReferenceType"}
TypeArgumentT == {"TypeArgument"}

\* getattr(x, 'name', default): default only when x has no name attribute
NoNameAttr == {"TypeArgument"}
getattr_name(x, default) ==
    IF x.tag = "node" /\ x.kind \notin NoNameAttr THEN x.name ELSE default

\* a bug (the driver's older rule): a method without statements ends on its
\* own start line
parse_methods_bodiless_ends_at_start(class_decl, lines, known_classes) ==
    LET found == filter(class_decl, MethodDeclarationT)
    IN  [i \in 1..Len(found) |->
            LET method == found[i].node
                start_line == get_start_line(method)
                end_line == IF Truthy(method.children[6]) THEN get_end_line(method)
                            ELSE start_line
            IN  [name |-> method.name,
                 start_line |-> start_line,
                 modifiers |-> method.modifiers,
                 code_snippet |-> get_code_from_lines(lines, PyInt(start_line), PyInt(end_line))]]

\* a bug: only the methods that are direct members of the body are taken
parse_methods_direct_members_only(class_decl, lines, known_classes) ==
    LET found == SelectSeq(filter(class_decl, MethodDeclarationT),
                           LAMBDA e : Len(e.path) = 2)
    IN  [i \in 1..Len(found) |->
            LET method == found[i].node
                start_line == get_start_line(method)
                end_line == get_end_line(method)
            IN  [name |-> method.name,
                 start_line |-> start_line,
                 modifiers |-> method.modifiers,
                 code_snippet |-> get_code_from_lines(lines, PyInt(start_line), PyInt(end_line))]]

parse_methods(class_decl, lines, known_classes) ==
    LET found == filter(class_decl, MethodDeclarationT)
    IN  [i \in 1..Len(found) |->
            LET method == found[i].node
                start_line == get_start_line(method)
                end_line == get_end_line(method)
            IN  [name |-> method.name,
                 start_line |-> start_line,
                 modifiers |-> method.modifiers,
                 code_snippet |-> get_code_from_lines(lines, PyInt(start_line), PyInt(end_line))]]

RECURSIVE FieldRecords_first_declarator_only(_, _)
\* a bug: only the first variable of a declaration is recorded
FieldRecords_first_declarator_only(found, i) ==
    IF i > Len(found) THEN <<>>
    ELSE LET field == found[i].node
             declarators == declarators_of(field)
         IN  [k \in 1..Min(1, Len(declarators)) |->
                 [name |-> declarators[k].name,
                  type |-> getattr_name(field_type(field), "Object"),
                  modifiers |-> field.modifiers]]
             \o FieldRecords_first_declarator_only(found, i + 1)

RECURSIVE FieldRecords(_, _)
\* the two nested loops of parse_fields, from field declaration i on
FieldRecords(found, i) ==
    IF i > Len(found) THEN <<>>
    ELSE LET field == found[i].node
             type_name == getattr_name(field_type(field), "Object")
             declarators == declarators_of(field)
         IN  [k \in 1..Len(declarators) |->
                 [name |-> declarators[k].name,
                  type |-> type_name,
                  modifiers |-> field.modifiers]]
             \o FieldRecords(found, i + 1)

parse_fields(class_decl, known_classes) ==
    FieldRecords(filter(class_decl, FieldDeclarationT), 1)

\* isinstance(q, str)
IsStr(q) == q # None

Range(seq) == {seq[i] : i \in 1..Len(seq)}

\* lines 109-115: qualifiers of invocations and member references inside
\* the method declarations of the class
MethodQualifierDeps(class_decl, known_classes) ==
    UNION {
        {n.node.qualifier : n \in
            {e \in Range(filter(m.node, MethodInvocationT)) \cup
                   Range(filter(m.node, MemberReferenceT)) :
                IsStr(e.node.qualifier) /\ e.node.qualifier \in known_classes}}
        : m \in Range(filter(class_decl, MethodDeclarationT))}

\* lines 117-120: declared field types
FieldTypeDeps(class_decl, known_classes) ==
    {getattr_name(field_type(f.node), None) : f \in
        {e \in Range(filter(class_decl, FieldDeclarationT)) :
            getattr_name(field_type(e.node), None) \in known_classes}}

\* lines 122-125 and 127-130: names of the nodes of one class in the subtree
NamedNodeDeps(class_decl, kinds, known_classes) ==
    {getattr_name(r.node, None) : r \in
        {e \in Range(filter(class_decl, kinds)) :
            getattr_name(e.node, None) \in known_classes}}

\* a bug: the reference-type scan is not checked against the known names
collect_class_dependencies_unfiltered_reference_types(class_decl, known_classes) ==
    MethodQualifierDeps(class_decl, known_classes)
    \cup FieldTypeDeps(class_decl, known_classes)
    \cup {r.node.name : r \in Range(filter(class_decl, ReferenceTypeT))}
    \cup NamedNodeDeps(class_decl, TypeArgumentT, known_classes)

\* a bug: the reference-type scan is missing
collect_class_dependencies_without_reference_types(class_decl, known_classes) ==
    MethodQualifierDeps(class_decl, known_classes)
    \cup FieldTypeDeps(class_decl, known_classes)
    \cup NamedNodeDeps(class_decl, TypeArgumentT, known_classes)

\* a bug: the reference-type scan covers the class body only, not the
\* extends and implements clauses
collect_class_dependencies_body_only(class_decl, known_classes) ==
    MethodQualifierDeps(class_decl, known_classes)
    \cup FieldTypeDeps(class_decl, known_classes)
    \cup NamedNodeDeps(class_decl.children[2], ReferenceTypeT, known_classes)
    \cup NamedNodeDeps(class_decl, TypeArgumentT, known_classes)

collect_class_dependencies(class_decl, known_classes) ==
    MethodQualifierDeps(class_decl, known_classes)
    \cup FieldTypeDeps(class_decl, known_classes)
    \cup NamedNodeDeps(class_decl, ReferenceTypeT, known_classes)
    \cup NamedNodeDeps(class_decl, TypeArgumentT, known_classes)

is_top_level_class(path) ==
    Len(path) >= 2 /\ path[2].tag = "list" /\ Len(path[2].children) = 1

\* lines 176-189
class_info_of(class_decl, original_lines, known_classes) ==
    LET class_start == get_start_line(class_decl)
        class_end == get_end_line(class_decl)
    IN  [name |-> class_decl.name,
         start_line |-> class_start,
         extends |-> IF Truthy(extends_of(class_decl))
                     THEN extends_of(class_decl).name ELSE None,
         implements |-> IF Truthy(implements_of(class_decl))
                        THEN [k \in 1..Len(implements_of(class_decl).children) |->
                                 implements_of(class_decl).children[k].name]
                        ELSE <<>>,
         annotations |-> [k \in 1..Len(annotations_of(class_decl)) |->
                             annotations_of(class_decl)[k].name],
         modifiers |-> class_decl.modifiers,
         methods |-> parse_methods(class_decl, original_lines, known_classes),
         fields |-> parse_fields(class_decl, known_classes),
         dependencies |-> collect_class_dependencies(class_decl, known_classes),
         code_snippet |-> get_code_from_lines(original_lines, PyInt(class_start),
                                              PyInt(class_end))]

\* the value parse_java_file returns for a file that did not yield a result
NoResult == [file_path |-> None, package |-> None, classes |-> <<>>]

\* a file: its path, its lines, and what javalang.parse.parse does with their
\* text: return a tree ("ok") or raise a syntax error or another exception
parse_java_file(java_file, class_index) ==
    IF java_file.parse # "ok" THEN NoResult
    ELSE LET tree == java_file.tree
             package == IF Truthy(package_of(tree)) THEN package_of(tree).name ELSE "default"
             known_classes == DOMAIN class_index
             top == SelectSeq(filter(tree, ClassDeclarationT),
                              LAMBDA e : is_top_level_class(e.path))
         IN  [file_path |-> java_file.file_path,
              package |-> package,
              classes |-> [i \in 1..Len(top) |->
                              class_info_of(top[i].node, java_file.original_lines, known_classes)]]

----------------------------------------------------------------------------
(* code_parser.py: the symbol index pass *)

\* a bug: an entry that exists is kept (dict.setdefault)
SetItem_keep_first(dict, key, value) ==
    [k \in DOMAIN dict \cup {key} |-> IF k \in DOMAIN dict THEN dict[k] ELSE value]

\* dict[key] = value
SetItem(dict, key, value) ==
    [k \in DOMAIN dict \cup {key} |-> IF k = key THEN value ELSE dict[k]]

RECURSIVE IndexClasses(_, _, _, _)
\* for _, class_decl in tree.filter(ClassDeclaration):
\*     class_index[class_decl.name] = package
IndexClasses(class_index, found, package, k) ==
    IF k > Len(found) THEN class_index
    ELSE IndexClasses(SetItem(class_index, found[k].node.name, package),
                      found, package, k + 1)

\* a bug: only the classes of the root's type list are recorded
IndexFile_top_level_only(class_index, java_file) ==
    IF java_file.parse # "ok" THEN class_index
    ELSE LET tree == java_file.tree
             package == IF Truthy(package_of(tree)) THEN package_of(tree).name ELSE "default"
         IN  IndexClasses(class_index,
                          SelectSeq(filter(tree, ClassDeclarationT),
                                    LAMBDA e : Len(e.path) = 2),
                          package, 1)

\* the try block of build_class_index for one file: open and read it, parse
\* its text, record its classes; an exception of open, read or parse leaves
\* the index as it was (the except clause logs a warning)
IndexFile(class_index, java_file) ==
    IF java_file.parse # "ok" THEN class_index
    ELSE LET tree == java_file.tree
             package == IF Truthy(package_of(tree)) THEN package_of(tree).name ELSE "default"
         IN  IndexClasses(class_index, filter(tree, ClassDeclarationT), package, 1)

RECURSIVE IndexFiles_abort_on_failure(_, _, _)
\* a bug: the first file that fails ends the pass
IndexFiles_abort_on_failure(class_index, files, i) ==
    IF i > Len(files) THEN class_index
    ELSE IF files[i].parse # "ok" THEN class_index
    ELSE IndexFiles_abort_on_failure(IndexFile(class_index, files[i]), files, i + 1)

RECURSIVE IndexFiles(_, _, _)
\* for file_path in java_files
IndexFiles(class_index, files, i) ==
    IF i > Len(files) THEN class_index
    ELSE IndexFiles(IndexFile(class_index, files[i]), files, i + 1)

build_class_index(files) == IndexFiles(<<>>, files, 1)

----------------------------------------------------------------------------
(* Inputs of span reconstruction: a node with up to MaxKids children, each *)
(* a leaf or a node with one leaf below it; any of them may lack a         *)
(* position.                                                               *)

Positions == {NoPosition} \cup {Position(l) : l \in 1..MaxLine}

SpanLeaves == {Node("Literal", None, None, p, {}, <<>>) : p \in Positions}

SpanInner ==
    SpanLeaves \cup
    {Node("StatementExpression", None, None, p, {}, <<c>>) :
        p \in Positions, c \in SpanLeaves}

SeqsUpTo(S, n) == UNION {[1..k -> S] : k \in 0..n}

SpanNodes ==
    {Node("BlockStatement", None, None, p, {}, <<List(kids)>>) :
        p \in Positions, kids \in SeqsUpTo(SpanInner, MaxKids)}

NotCalled == [start_line |-> -1, end_line |-> -1]

NoNode == Scalar(None)
NoSnip == [lines |-> <<>>, start_line |-> PyNone, end_line |-> PyNone]
NoFile == [file_path |-> None, original_lines |-> <<>>, parse |-> "unread", tree |-> NoNode]
NotParsed == [file_path |-> "not called", package |-> None, classes |-> <<>>]

\* the variables of the operations a behaviour does not exercise
NoSpan == node = NoNode /\ span = NotCalled
NoSnippet == snip = NoSnip /\ snippet = None
NoExtraction == file = NoFile /\ project_class_index = <<>> /\ parsed = NotParsed
NoDiagram == /\ all_parsed_data = <<>> /\ packages = <<>> /\ relationships = {}
             /\ buffer = <<>> /\ diagram = None
NoBatch == java_files = <<>> /\ cursor = 0
NoLlm == [pc |-> "not called"]
NoAnnotation == [client |-> None, calls |-> 0, returned |-> NotParsed]
NoFmt == [member |-> None, field |-> None, method |-> None]
NotBuilt == "not built"
NoOutput == /\ llm = NoLlm /\ annotation = NoAnnotation /\ fmt = NoFmt
            /\ files_written = <<>> /\ rebuilt = NotBuilt

InitSpan ==
    /\ NoOutput
    /\ pc = "span"
    /\ node \in SpanNodes
    /\ span = NotCalled
    /\ snip = NoSnip
    /\ snippet = None
    /\ NoExtraction
    /\ NoDiagram
    /\ NoBatch

\* start_line = get_start_line(node); end_line = get_end_line(node)
\* (code_parser.py lines 60-61 and 176-177)
ReconstructSpan ==
    /\ UNCHANGED output_vars
    /\ pc = "span"
    /\ span = NotCalled
    /\ span' = [start_line |-> get_start_line(node), end_line |-> get_end_line(node)]
    /\ UNCHANGED <<pc, node, snip, snippet, file, project_class_index, parsed,
                   all_parsed_data, packages, relationships, buffer, diagram,
                   java_files, cursor>>

NextSpan == ReconstructSpan

SpecSpan == InitSpan /\ [][NextSpan]_vars

----------------------------------------------------------------------------
(* Inputs of snippet extraction *)

LineTexts == {"a\n", "b\n"}

PyIntOrNone == {PyNone} \cup {PyInt(n) : n \in 0..MaxLen}

InitSnippet ==
    /\ NoOutput
    /\ pc = "snippet"
    /\ node = NoNode
    /\ span = NotCalled
    /\ snip \in [lines : SeqsUpTo(LineTexts, MaxLen),
                 start_line : PyIntOrNone, end_line : PyIntOrNone]
    /\ snippet = None
    /\ NoExtraction
    /\ NoDiagram
    /\ NoBatch

GetCodeFromLines ==
    /\ UNCHANGED output_vars
    /\ pc = "snippet"
    /\ snippet = None
    /\ snippet' = get_code_from_lines(snip.lines, snip.start_line, snip.end_line)
    /\ UNCHANGED <<pc, node, span, snip, file, project_class_index, parsed,
                   all_parsed_data, packages, relationships, buffer, diagram,
                   java_files, cursor>>

NextSnippet == GetCodeFromLines

SpecSnippet == InitSnippet /\ [][NextSnippet]_vars

----------------------------------------------------------------------------
(* Claims about span reconstruction and snippet extraction *)

RECURSIVE SubtreeNodes(_)
\* the Nodes of a subtree, the root included
SubtreeNodes(v) ==
    (IF v.tag = "node" THEN {v} ELSE {})
    \cup UNION {SubtreeNodes(v.children[i]) : i \in 1..Len(v.children)}

PositionedLines(v) ==
    {n.position[1] : n \in {m \in SubtreeNodes(v) : m.position # NoPosition}}

SetMax(S) == CHOOSE x \in S : \A y \in S : y <= x

SpanDone == pc = "span" /\ span # NotCalled

\* C3 (as stated): for a node that carries no position and has no positioned
\* descendant, get_end_line(node) equals get_start_line(node).
C3_EndEqualsStartWhenUnpositioned ==
    (SpanDone /\ PositionedLines(node) = {}) => span.end_line = span.start_line

\* C3 (amended): for a node that carries no position and has no positioned
\* descendant, get_start_line(node) is the sentinel 0 and get_end_line(node)
\* is 1, one more than the start line.
C3_EndIsStartPlusOneWhenUnpositioned ==
    (SpanDone /\ PositionedLines(node) = {}) =>
        (span.start_line = 0 /\ span.end_line = span.start_line + 1)

C3_Witness ==
    /\ SpanDone
    /\ PositionedLines(node) = {}
    /\ Cardinality(SubtreeNodes(node)) >= 3

\* C4: for every node with at least one positioned node in its subtree
\* (itself included), get_end_line returns one plus the maximum source line
\* among the node and its positioned descendants, unpositioned descendants
\* being skipped; and end_line >= start_line for every node.
C4_EndIsMaxLinePlusOne ==
    SpanDone =>
        /\ PositionedLines(node) # {} =>
               span.end_line = SetMax(PositionedLines(node)) + 1
        /\ span.end_line >= span.start_line

\* the maximum sits two levels down, below an unpositioned node, and the
\* root itself has a smaller line
C4_Witness ==
    /\ SpanDone
    /\ node.position = Position(1)
    /\ \E i \in 1..Len(node.children[1].children) :
          LET kid == node.children[1].children[i]
          IN  /\ kid.position = NoPosition
              /\ Len(kid.children) = 1
              /\ kid.children[1].position = Position(MaxLine)
    /\ span.end_line = MaxLine + 1

RECURSIVE ConcatFromTo(_, _, _)
\* lines[i] followed by lines[i+1] ... lines[j], 1-based
ConcatFromTo(lines, i, j) ==
    IF i > j THEN "" ELSE lines[i] \o ConcatFromTo(lines, i + 1, j)

SnippetDone == pc = "snippet" /\ snippet # None

\* C5: for all (lines, start, end) with 1 <= start <= end <= len(lines),
\* get_code_from_lines returns exactly the concatenation of the lines numbered
\* start..end (lines[start-1 .. end-1] of the 0-based list) in order; whenever
\* start or end is falsy (0 or None) it returns the empty string.
C5_SnippetIsTheLinesInRange ==
    SnippetDone =>
        /\ (Falsy(snip.start_line) \/ Falsy(snip.end_line)) => snippet = ""
        /\ (/\ ~Falsy(snip.start_line) /\ ~Falsy(snip.end_line)
            /\ snip.start_line[1] <= snip.end_line[1]
            /\ snip.end_line[1] <= Len(snip.lines)) =>
               snippet = ConcatFromTo(snip.lines, snip.start_line[1], snip.end_line[1])

C5_Witness ==
    /\ SnippetDone
    /\ snip.start_line = PyInt(2)
    /\ snip.end_line = PyInt(3)
    /\ Len(snip.lines) = 3
    /\ snip.lines[1] # snip.lines[2]
    /\ snippet = snip.lines[2] \o snip.lines[3]

----------------------------------------------------------------------------
(* diagram_builder.py: relationship derivation *)

\* bool(s) of a string or None
TruthyStr(str) == str # None /\ str # ""

\* DiagramBuilder.add_relationship: the arrow, added to the set when the
\* relationship type is a known one
add_relationship(rels, source, target, rel_type) ==
    LET arrow == CASE rel_type = "extends" -> target \o " <|-- " \o source \o " : extends"
                   [] rel_type = "implements" -> target \o " <|.. " \o source \o " : implements"
                   [] rel_type = "uses" -> source \o " ..> " \o target \o " : uses"
                   [] OTHER -> None
    IN  IF TruthyStr(arrow) THEN rels \cup {arrow} ELSE rels

\* DiagramBuilder.add_class: self.packages[package_name].append(class_data)
add_class(pkgs, package_name, class_data) ==
    IF \E k \in 1..Len(pkgs) : pkgs[k].package_name = package_name
    THEN [k \in 1..Len(pkgs) |->
             IF pkgs[k].package_name = package_name
             THEN [pkgs[k] EXCEPT !.classes = Append(@, class_data)]
             ELSE pkgs[k]]
    ELSE Append(pkgs, [package_name |-> package_name, classes |-> <<class_data>>])

\* a bug: only the first implemented interface is drawn
AddImplements_first_only(rels, name, implements, k) ==
    add_relationship(rels, name, implements[1], "implements")

RECURSIVE AddImplements(_, _, _, _)
\* for iface in class_info['implements']: add_relationship(name, iface, 'implements')
AddImplements(rels, name, implements, k) ==
    IF k > Len(implements) THEN rels
    ELSE AddImplements(add_relationship(rels, name, implements[k], "implements"),
                       name, implements, k + 1)

\* a bug: the entity's own name is not skipped
RECURSIVE AddUsesUnfiltered(_, _, _)
AddUsesUnfiltered(rels, name, deps) ==
    IF deps = {} THEN rels
    ELSE LET dep == CHOOSE d \in deps : TRUE
         IN  AddUsesUnfiltered(add_relationship(rels, name, dep, "uses"), name, deps \ {dep})

RECURSIVE AddUses(_, _, _)
\* for dep in class_info.get('dependencies', []): if dep != name: add 'uses'
AddUses(rels, name, deps) ==
    IF deps = {} THEN rels
    ELSE LET dep == CHOOSE d \in deps : TRUE
         IN  AddUses(IF dep # name THEN add_relationship(rels, name, dep, "uses") ELSE rels,
                     name, deps \ {dep})

\* lines 117-126: one class of one file
AddClassInfo(builder, pkg, class_info) ==
    LET name == class_info.name
        r1 == IF TruthyStr(class_info.extends)
              THEN add_relationship(builder.relationships, name, class_info.extends, "extends")
              ELSE builder.relationships
        r2 == IF class_info.implements # <<>>
              THEN AddImplements(r1, name, class_info.implements, 1)
              ELSE r1
        r3 == AddUses(r2, name, class_info.dependencies)
    IN  [packages |-> add_class(builder.packages, pkg, class_info),
         relationships |-> r3,
         buffer |-> builder.buffer]

RECURSIVE AddClasses(_, _, _, _)
AddClasses(builder, pkg, classes, j) ==
    IF j > Len(classes) THEN builder
    ELSE AddClasses(AddClassInfo(builder, pkg, classes[j]), pkg, classes, j + 1)

\* the value of a list entry that is falsy (None, or an empty dict)
NoResultData(file_data) == file_data = NoResult

RECURSIVE AddFiles(_, _, _)
\* lines 112-126: for file_data in all_parsed_data
AddFiles(builder, data, i) ==
    IF i > Len(data) THEN builder
    ELSE IF NoResultData(data[i]) THEN AddFiles(builder, data, i + 1)
    ELSE AddFiles(AddClasses(builder, data[i].package, data[i].classes, 1), data, i + 1)

\* DiagramBuilder.__init__
NewDiagramBuilder == [packages |-> <<>>, relationships |-> {}, buffer |-> <<>>]

\* lines 110-126: the builder before build() is called on it
FilledBuilder(data) == AddFiles(NewDiagramBuilder, data, 1)

----------------------------------------------------------------------------
(* diagram_builder.py: the PlantUML text *)

RECURSIVE JoinWith(_, _)
\* sep.join(parts)
JoinWith(sep, parts) ==
    IF parts = <<>> THEN ""
    ELSE IF Len(parts) = 1 THEN parts[1]
    ELSE parts[1] \o sep \o JoinWith(sep, Tail(parts))

\* a bug: a member with no access modifier is drawn as public
visibility_of_public_by_default(modifiers) ==
    IF "private" \in modifiers THEN "-"
    ELSE IF "protected" \in modifiers THEN "#"
    ELSE "+"

\* lines 24-27 and 47-50: the visibility symbol of a member
visibility_of(modifiers) ==
    IF "private" \in modifiers THEN "-"
    ELSE IF "protected" \in modifiers THEN "#"
    ELSE IF ~(\E mod \in {"public", "private", "protected"} : mod \in modifiers) THEN "~"
    ELSE "+"

\* f" {{{{{', '.join(stereotypes)}}}}}" if stereotypes else ""
stereotype_str(stereotypes) ==
    IF stereotypes # <<>> THEN " {{" \o JoinWith(", ", stereotypes) \o "}}" ELSE ""

format_field(field) ==
    LET stereotypes == (IF "static" \in field.modifiers THEN <<"static">> ELSE <<>>)
                       \o (IF "final" \in field.modifiers THEN <<"final">> ELSE <<>>)
    IN  visibility_of(field.modifiers) \o " " \o field.name \o " : " \o field.type
        \o stereotype_str(stereotypes)

format_method(method) ==
    LET stereotypes == (IF "abstract" \in method.modifiers THEN <<"abstract">> ELSE <<>>)
                       \o (IF "static" \in method.modifiers THEN <<"static">> ELSE <<>>)
    IN  visibility_of(method.modifiers) \o " " \o method.name \o "()"
        \o stereotype_str(stereotypes)

\* write_class_block to a StringIO, and its getvalue()
write_class_block_inline(class_data) ==
    LET name == class_data.name
        is_interface == "interface" \in class_data.modifiers
        is_abstract == "abstract" \in class_data.modifiers /\ ~is_interface
        stereotype == IF is_interface THEN "<<interface>>"
                      ELSE IF is_abstract THEN "<<abstract>>" ELSE ""
        head == IF is_interface THEN "  interface " \o name \o " " \o stereotype \o " {\n"
                ELSE IF is_abstract
                     THEN "  abstract class " \o name \o " " \o stereotype \o " {\n"
                     ELSE "  class " \o name \o " " \o stereotype \o " {\n"
    IN  head
        \o Join([k \in 1..Len(class_data.fields) |->
                    "    " \o format_field(class_data.fields[k]) \o "\n"])
        \o Join([k \in 1..Len(class_data.methods) |->
                    "    " \o format_method(class_data.methods[k]) \o "\n"])
        \o "  }\n"

\* package_name.replace(".", "_"), on the package names of the model
PackageAlias(package_name) ==
    CASE package_name = "com.example" -> "com_example"
      [] package_name = "default" -> "default"

\* Python's order of str on the class names of the model, and on the arrows
\* that follow a name and a space: "." < "<" and "-" < "."
NameOrder == <<"A", "B", "C", "I1", "I2">>
ArrowOrder == <<"..>", "<|--", "<|..">>

\* an arrow line, from the name it starts with, its arrow and its second name
ArrowLine(first, arrow, second) ==
    first \o " " \o arrow \o " " \o second \o
    (CASE arrow = "..>" -> " : uses"
       [] arrow = "<|--" -> " : extends"
       [] arrow = "<|.." -> " : implements")

\* every arrow line over the names of the model, in Python's order of str:
\* by first name, then by arrow, then by second name
ArrowLinesInOrder ==
    LET n == Len(NameOrder)
        a == Len(ArrowOrder)
    IN  [i \in 1..(n * a * n) |->
            ArrowLine(NameOrder[((i - 1) \div (a * n)) + 1],
                      ArrowOrder[(((i - 1) \div n) % a) + 1],
                      NameOrder[((i - 1) % n) + 1])]

\* sorted(self.relationships)
sorted(rels) == SelectSeq(ArrowLinesInOrder, LAMBDA line : line \in rels)

write_header(buf) ==
    buf \o <<"@startuml", "skinparam packageStyle rect", "hide empty members",
                "title CodeComprehender Architecture Diagram\n">>

RECURSIVE PackageEntries(_, _)
PackageEntries(pkgs, k) ==
    IF k > Len(pkgs) THEN <<>>
    ELSE <<"package \"" \o pkgs[k].package_name \o "\" as "
              \o PackageAlias(pkgs[k].package_name) \o " {">>
         \o [j \in 1..Len(pkgs[k].classes) |-> write_class_block_inline(pkgs[k].classes[j])]
         \o <<"}">>
         \o PackageEntries(pkgs, k + 1)

write_packages(buf, pkgs) == buf \o PackageEntries(pkgs, 1)

write_relationships(buf, rels) == buf \o <<"\n' Relationships">> \o sorted(rels)

write_footer(buf) == buf \o <<"\n@enduml">>

\* DiagramBuilder.build: the buffer it leaves and the document it returns
build(builder) ==
    LET buf == write_footer(
                      write_relationships(
                          write_packages(write_header(builder.buffer), builder.packages),
                          builder.relationships))
    IN  [buffer |-> buf, document |-> JoinWith("\n", buf)]

\* the builder as generate_architecture_diagram leaves it, and what it returns
generate_architecture_diagram(data) ==
    LET builder == FilledBuilder(data)
        built == build(builder)
    IN  [packages |-> builder.packages, relationships |-> builder.relationships,
         buffer |-> built.buffer, returned |-> built.document]

----------------------------------------------------------------------------
(* main.py: the driver's own extractor and relationship derivation.  The   *)
(* driver calls the functions main.py defines, which take no symbol index. *)

\* Import: attrs path, static, wildcard; the path is held as the name
Import(path) == Node("Import", path, None, NoPosition, {}, <<>>)

imports_of(tree) == tree.children[2].children
body_of_class(class_decl) == class_decl.children[2]
body_of_method(method) == method.children[6]

\* import_decl.path.split('.')[-1], on the import paths of the model
LastPart(path) ==
    CASE path = "com.example.A" -> "A"
      [] path = "java.util.List" -> "List"
      [] OTHER -> path

\* max(node.position.line for node in body) + 1 if body else decl.position.line
\* raises AttributeError when a position it reads is None
BodyEndRaises(decl, body) ==
    IF Truthy(body)
    THEN \E k \in 1..Len(body.children) : body.children[k].position = NoPosition
    ELSE decl.position = NoPosition

BodyEnd(decl, body) ==
    IF Truthy(body)
    THEN SetMax({body.children[k].position[1] : k \in 1..Len(body.children)}) + 1
    ELSE decl.position[1]

\* lines 86-107: the methods of one class declaration
main_methods(class_decl, original_lines) ==
    LET found == filter(class_decl, MethodDeclarationT)
    IN  [i \in 1..Len(found) |->
            LET method_declaration == found[i].node
                method_end_line == BodyEnd(method_declaration,
                                           body_of_method(method_declaration))
            IN  [name |-> method_declaration.name,
                 start_line |-> method_declaration.position[1],
                 code_snippet |-> get_code_from_lines(original_lines,
                                      PyInt(method_declaration.position[1]),
                                      PyInt(method_end_line)),
                 modifiers |-> method_declaration.modifiers]]

\* field_decl.type.name if hasattr(field_decl.type, 'name') else None
main_field_type(field_decl) == getattr_name(field_type(field_decl), None)

RECURSIVE main_fields(_, _)
\* lines 110-121: the field records of one class declaration
main_fields(found, i) ==
    IF i > Len(found) THEN <<>>
    ELSE LET field_decl == found[i].node
             type_name == main_field_type(field_decl)
             declarators == declarators_of(field_decl)
         IN  [k \in 1..Len(declarators) |->
                 [name |-> declarators[k].name,
                  type |-> IF TruthyStr(type_name) THEN type_name ELSE "Object",
                  modifiers |-> field_decl.modifiers]]
             \o main_fields(found, i + 1)

\* lines 85-128: qualifiers inside methods, field types and imported names
\* that are names of classes defined in this file
main_dependencies(tree, class_decl, defined_class_names) ==
    MethodQualifierDeps(class_decl, defined_class_names)
    \cup FieldTypeDeps(class_decl, defined_class_names)
    \cup {name \in {LastPart(imports_of(tree)[k].name) : k \in 1..Len(imports_of(tree))} :
             name \in defined_class_names}

\* a position read in lines 87-141 is None
main_raises(class_decl) ==
    \/ class_decl.position = NoPosition
    \/ BodyEndRaises(class_decl, body_of_class(class_decl))
    \/ \E m \in Range(filter(class_decl, MethodDeclarationT)) :
          \/ m.node.position = NoPosition
          \/ BodyEndRaises(m.node, body_of_method(m.node))

\* lines 133-142
main_class_info(tree, class_declaration, original_lines, defined_class_names) ==
    [name |-> class_declaration.name,
     methods |-> main_methods(class_declaration, original_lines),
     fields |-> main_fields(filter(class_declaration, FieldDeclarationT), 1),
     start_line |-> class_declaration.position[1],
     extends |-> IF Truthy(extends_of(class_declaration))
                 THEN extends_of(class_declaration).name ELSE None,
     implements |-> IF Truthy(implements_of(class_declaration))
                    THEN [k \in 1..Len(implements_of(class_declaration).children) |->
                             implements_of(class_declaration).children[k].name]
                    ELSE <<>>,
     dependencies |-> main_dependencies(tree, class_declaration, defined_class_names),
     code_snippet |-> get_code_from_lines(original_lines,
                          PyInt(class_declaration.position[1]),
                          PyInt(BodyEnd(class_declaration, body_of_class(class_declaration))))]

\* main.py's parse_java_file(file_path, original_lines)
main_parse_java_file(java_file) ==
    IF java_file.parse # "ok" THEN NoResult
    ELSE LET tree == java_file.tree
             package == IF Truthy(package_of(tree)) THEN package_of(tree).name ELSE "default"
             found == filter(tree, ClassDeclarationT)
             defined_class_names == {found[k].node.name : k \in 1..Len(found)}
         IN  IF \E k \in 1..Len(found) : main_raises(found[k].node) THEN NoResult
             ELSE [file_path |-> java_file.file_path,
                   package |-> package,
                   classes |-> [i \in 1..Len(found) |->
                                   main_class_info(tree, found[i].node,
                                                   java_file.original_lines,
                                                   defined_class_names)]]

\* main.py lines 223-252 of generate_architecture_diagram: the packages and
\* the relationship set; the text written to architecture.puml is not kept
main_relationships(class_info) ==
    (IF TruthyStr(class_info.extends)
     THEN {class_info.extends \o " <|-- " \o class_info.name \o " : extends"} ELSE {})
    \cup {class_info.implements[k] \o " <|.. " \o class_info.name \o " : implements" :
             k \in 1..Len(class_info.implements)}
    \cup {class_info.name \o " ..> " \o dep \o " : uses" :
             dep \in class_info.dependencies \ {class_info.name}}

RECURSIVE main_packages(_, _, _)
main_packages(pkgs, data, i) ==
    IF i > Len(data) THEN pkgs
    ELSE IF NoResultData(data[i]) THEN main_packages(pkgs, data, i + 1)
    ELSE LET package_name == data[i].package
             present == IF \E k \in 1..Len(pkgs) : pkgs[k].package_name = package_name
                        THEN pkgs
                        ELSE Append(pkgs, [package_name |-> package_name, classes |-> <<>>])
         IN  main_packages(
                 [k \in 1..Len(present) |->
                     IF present[k].package_name = package_name
                     THEN [present[k] EXCEPT !.classes = @ \o data[i].classes]
                     ELSE present[k]],
                 data, i + 1)

main_generate_architecture_diagram(data) ==
    [packages |-> main_packages(<<>>, data, 1),
     relationships |->
        UNION {UNION {main_relationships(data[i].classes[j]) :
                         j \in 1..Len(data[i].classes)} :
                  i \in {k \in 1..Len(data) : ~NoResultData(data[k])}}]

\* a bug: the result is appended even when it is None
AppendParsed_unconditional(data, parsed_structure) == Append(data, parsed_structure)

\* if parsed_structure: all_parsed_data.append(parsed_structure)
AppendParsed(data, parsed_structure) ==
    IF parsed_structure # NoResult THEN Append(data, parsed_structure) ELSE data

----------------------------------------------------------------------------
(* The operations on a file: extraction, then the diagram of what was     *)
(* extracted.                                                             *)

\* parsed_structure = parse_java_file(...); if parsed_structure:
\*     all_parsed_data.append(parsed_structure)
ParseJavaFile ==
    /\ UNCHANGED output_vars
    /\ pc = "extract"
    /\ parsed' = parse_java_file(file, project_class_index)
    /\ all_parsed_data' = IF parsed' # NoResult THEN Append(all_parsed_data, parsed')
                          ELSE all_parsed_data
    /\ pc' = "parsed"
    /\ UNCHANGED <<node, span, snip, snippet, file, project_class_index,
                   packages, relationships, buffer, diagram,
                   java_files, cursor>>

\* generate_architecture_diagram(all_parsed_data, output_path), which the
\* driver calls when all_parsed_data is not empty.  Line 109 computes the
\* path of architecture.puml; no statement of the function opens or writes a
\* file, and line 127 returns what build() returned.
GenerateArchitectureDiagram ==
    /\ UNCHANGED output_vars
    /\ pc = "diagram" \/ (pc = "parsed" /\ all_parsed_data # <<>>)
    /\ LET call == generate_architecture_diagram(all_parsed_data)
       IN  /\ packages' = call.packages
           /\ relationships' = call.relationships
           /\ buffer' = call.buffer
           /\ diagram' = call.returned
    /\ pc' = "drawn"
    /\ UNCHANGED <<node, span, snip, snippet, file, project_class_index, parsed,
                   all_parsed_data, java_files, cursor>>

NextPipeline == ParseJavaFile \/ GenerateArchitectureDiagram

----------------------------------------------------------------------------
(* Files for the structure of a compilation unit: up to MaxTypes top-level *)
(* types, classes and interfaces, some with classes nested one or two      *)
(* levels down.  The k-th type starts at line 3k-2 and spans three lines.  *)

TopNames == {"A", "B"}
Absent == Scalar(None)

SourceLine(i) == "L" \o ToString(i) \o "\n"
SourceLines(n) == [i \in 1..n |-> SourceLine(i)]

EmptyMethod(name, line) ==
    MethodDeclaration(name, Position(line), {"public"}, <<>>, List(<<>>))

PlainClass(name, line, body) ==
    ClassDeclaration(name, Position(line), {"public"}, body, Absent, Absent)

TypeShapes == {"empty", "method", "nested", "nested_method", "deep", "twins",
               "interface", "interface_nested"}

TypeDecl(shape, name, b) ==
    CASE shape = "empty" -> PlainClass(name, b, <<>>)
      [] shape = "method" -> PlainClass(name, b, <<EmptyMethod("m", b + 1)>>)
      [] shape = "nested" -> PlainClass(name, b, <<PlainClass("Inner", b + 1, <<>>)>>)
      [] shape = "nested_method" ->
            PlainClass(name, b, <<PlainClass("Inner", b + 1, <<EmptyMethod("im", b + 2)>>)>>)
      [] shape = "deep" ->
            PlainClass(name, b, <<PlainClass("Inner", b + 1,
                                             <<PlainClass("Deep", b + 2, <<>>)>>)>>)
      [] shape = "twins" ->
            PlainClass(name, b, <<PlainClass("X", b + 1, <<PlainClass("Inner", b + 1, <<>>)>>),
                                  PlainClass("Y", b + 2, <<PlainClass("Inner", b + 2, <<>>)>>)>>)
      [] shape = "interface" -> InterfaceDeclaration(name, Position(b), <<>>)
      [] shape = "interface_nested" ->
            InterfaceDeclaration(name, Position(b), <<PlainClass("Inner", b + 1, <<>>)>>)

StructureTrees ==
    {CompilationUnit(package,
                     [k \in 1..Len(choice) |->
                         TypeDecl(choice[k][1], choice[k][2], 3 * k - 2)]) :
        package \in {Absent, PackageDeclaration("com.example")},
        choice \in SeqsUpTo(TypeShapes \X TopNames, MaxTypes)}

StructureFiles ==
    {[file_path |-> "src/F.java", original_lines |-> SourceLines(3 * MaxTypes),
      parse |-> "ok", tree |-> t] : t \in StructureTrees}
    \cup {[file_path |-> "src/F.java", original_lines |-> SourceLines(1),
           parse |-> how, tree |-> NoNode] : how \in {"syntax_error", "error"}}

IndexOver(names) == [n \in names |-> "com.example"]

InitParse ==
    /\ NoOutput
    /\ pc = "extract"
    /\ file \in StructureFiles
    /\ project_class_index \in {IndexOver({}), IndexOver({"A", "B", "Inner", "Deep"})}
    /\ parsed = NotParsed
    /\ NoSpan
    /\ NoSnippet
    /\ NoDiagram
    /\ NoBatch

SpecParse == InitParse /\ [][NextPipeline]_vars

----------------------------------------------------------------------------
(* Claims about which declarations parse_java_file emits *)

ParseDone == pc # "extract" /\ file.parse = "ok" /\ parsed # NotParsed

\* the class declarations that are direct children of the root's type list
TopLevelClasses(tree) ==
    {t \in Range(types_of(tree)) : t.kind = "ClassDeclaration"}

IsEntryOf(entry, class_decl) ==
    entry.name = class_decl.name /\ entry.start_line = get_start_line(class_decl)

\* C1: for every successfully parsed file, every entry of the returned
\* 'classes' list is the entry of a top-level class declaration; no class
\* nested (at any depth) inside another type appears as its own entry.
C1_OnlyTopLevelClassesEmitted ==
    ParseDone =>
        \A i \in 1..Len(parsed.classes) :
            \E t \in TopLevelClasses(file.tree) : IsEntryOf(parsed.classes[i], t)

\* C2: for every file that parses successfully, parse_java_file returns one
\* class entry for each top-level class declaration of the file, whatever the
\* number of top-level types the file declares.
C2_EveryTopLevelClassEmitted ==
    ParseDone =>
        \A t \in TopLevelClasses(file.tree) :
            Cardinality({i \in 1..Len(parsed.classes) : IsEntryOf(parsed.classes[i], t)}) = 1

\* C16: in every result returned by parse_java_file no two entries of the
\* 'classes' list have the same name, also for files whose types contain
\* nested types that share a simple name.
C16_EntityNamesUniqueWithinFile ==
    ParseDone =>
        \A i, j \in 1..Len(parsed.classes) :
            parsed.classes[i].name = parsed.classes[j].name => i = j

----------------------------------------------------------------------------
(* Files for dependency discovery: one top-level class B whose body holds  *)
(* up to MaxMembers members, each referring to a class or to the variable  *)
(* `other` in one of the ways the extractor looks for.  The k-th member is *)
(* on line k+1.                                                            *)

Invoke(qualifier, line) == MethodInvocation(qualifier, "doX", line)

MemberShapes ==
    ({"inv"} \X {"A", "B", "other"})        \* void m() { q.doX(); }
    \cup ({"ref"} \X {"A"})                 \* void m() { x = q.f; }
    \cup ({"local"} \X {"B", "C"})          \* void m() { T other; }
    \cup ({"param"} \X {"C"})               \* void m(T other) {}
    \cup ({"field"} \X {"A", "C"})          \* private T other;
    \cup ({"generic"} \X {"C"})             \* private List<T> items;
    \cup ({"ctor"} \X {"A"})                \* B() { q.doX(); }
    \cup ({"init"} \X {"A"})                \* private int x = q.doX();

Member(shape, x, line) ==
    CASE shape = "inv" ->
            MethodDeclaration("m", Position(line), {}, <<>>, List(<<Invoke(x, line)>>))
      [] shape = "ref" ->
            MethodDeclaration("m", Position(line), {}, <<>>,
                              List(<<MemberReference(x, "f", line)>>))
      [] shape = "local" ->
            MethodDeclaration("m", Position(line), {}, <<>>,
                List(<<LocalVariableDeclaration(ReferenceType(x, <<>>), "other", line)>>))
      [] shape = "param" ->
            MethodDeclaration("m", Position(line), {},
                <<FormalParameter(ReferenceType(x, <<>>), "other")>>, List(<<>>))
      [] shape = "field" ->
            FieldDeclaration(Position(line), {"private"}, ReferenceType(x, <<>>),
                             <<VariableDeclarator("other", Absent)>>)
      [] shape = "generic" ->
            FieldDeclaration(Position(line), {"private"},
                ReferenceType("List", <<TypeArgument(ReferenceType(x, <<>>))>>),
                <<VariableDeclarator("items", Absent)>>)
      [] shape = "ctor" ->
            ConstructorDeclaration("B", Position(line), <<>>, List(<<Invoke(x, line)>>))
      [] shape = "init" ->
            FieldDeclaration(Position(line), {"private"}, BasicType("int"),
                             <<VariableDeclarator("x", Invoke(x, line))>>)

\* class B { ... }  or  class B extends A implements I1, I2 { ... }
ClassB(inherits, members) ==
    ClassDeclaration("B", Position(1), {"public"},
        [k \in 1..Len(members) |-> Member(members[k][1], members[k][2], k + 1)],
        IF inherits THEN ReferenceType("A", <<>>) ELSE Absent,
        IF inherits THEN List(<<ReferenceType("I1", <<>>), ReferenceType("I2", <<>>)>>)
        ELSE Absent)

DependencyFiles ==
    {[file_path |-> "src/B.java", original_lines |-> SourceLines(MaxMembers + 2),
      parse |-> "ok",
      tree |-> CompilationUnit(PackageDeclaration("com.example"),
                               <<ClassB(inherits, members)>>)] :
        inherits \in BOOLEAN, members \in SeqsUpTo(MemberShapes, MaxMembers)}

InitDeps ==
    /\ NoOutput
    /\ pc = "extract"
    /\ file \in DependencyFiles
    /\ project_class_index \in
          {IndexOver(S \cup {"I1", "I2"}) : S \in {{}, {"A", "B"}, {"B", "C"}, {"A", "B", "C"}}}
    /\ parsed = NotParsed
    /\ NoSpan
    /\ NoSnippet
    /\ NoDiagram
    /\ NoBatch

SpecDeps == InitDeps /\ [][NextPipeline]_vars

----------------------------------------------------------------------------
(* Parsed data handed to generate_architecture_diagram directly: up to     *)
(* MaxFiles entries, each the result of one file (one class, or two) or    *)
(* an entry without a result.                                              *)

ClassInfo(name, extends, implements, dependencies) ==
    [name |-> name, start_line |-> 1, extends |-> extends, implements |-> implements,
     annotations |-> <<>>, modifiers |-> {"public"}, methods |-> <<>>, fields |-> <<>>,
     dependencies |-> dependencies, code_snippet |-> SourceLine(1)]

DiagramClasses ==
    {ClassInfo(name, extends, implements, dependencies) :
        name \in {"A", "B"}, extends \in {None, "A"},
        implements \in {<<>>, <<"I1", "I2">>},
        dependencies \in {{}, {"A", "B"}}}

DiagramFiles ==
    {[file_path |-> "src/F.java", package |-> package, classes |-> classes] :
        package \in {"default", "com.example"},
        classes \in SeqsUpTo(DiagramClasses, 1)}
    \cup {[file_path |-> "src/F.java", package |-> "com.example",
           classes |-> <<ClassInfo("A", None, <<"I1">>, {"B"}),
                         ClassInfo("B", "A", <<"I1">>, {"A", "B"})>>]}
    \cup {NoResult}

InitDiagram ==
    /\ NoOutput
    /\ pc = "diagram"
    /\ all_parsed_data \in SeqsUpTo(DiagramFiles, MaxFiles)
    /\ packages = <<>>
    /\ relationships = {}
    /\ buffer = <<>>
    /\ diagram = None
    /\ NoSpan
    /\ NoSnippet
    /\ NoExtraction
    /\ NoBatch

NextDiagram == GenerateArchitectureDiagram

SpecDiagram == InitDiagram /\ [][NextDiagram]_vars

----------------------------------------------------------------------------
(* Claims about dependency discovery *)

KnownNames == DOMAIN project_class_index

NodesOfKind(root, kind) == {n \in SubtreeNodes(root) : n.kind = kind}

\* the names a declaration refers to, by the five source kinds, wherever in
\* its subtree the reference stands
QualifierNames(root, kind) ==
    {n.qualifier : n \in {m \in NodesOfKind(root, kind) : m.qualifier # None}}
FieldTypeNames(root) == {field_type(f).name : f \in NodesOfKind(root, "FieldDeclaration")}
ReferenceTypeNames(root) == {r.name : r \in NodesOfKind(root, "ReferenceType")}
TypeArgumentNames(root) == {a.children[1].name : a \in NodesOfKind(root, "TypeArgument")}

ReferencedNames(root) ==
    QualifierNames(root, "MethodInvocation") \cup QualifierNames(root, "MemberReference")
    \cup FieldTypeNames(root) \cup ReferenceTypeNames(root) \cup TypeArgumentNames(root)

\* the declaration an entry was built from
DeclOf(entry) ==
    CHOOSE c \in NodesOfKind(file.tree, "ClassDeclaration") : IsEntryOf(entry, c)

\* C6: the dependency set of every emitted class is a subset of the known
\* names; a name absent from the symbol set is never included, however many
\* times and in whichever source kind it is referenced.
C6_DependenciesAreKnownNames ==
    ParseDone =>
        \A i \in 1..Len(parsed.classes) : parsed.classes[i].dependencies \subseteq KnownNames

\* a name referenced by two members, in two source kinds, is absent from the
\* symbol set and from the result, while a known name is found
C6_Witness ==
    /\ ParseDone
    /\ Len(parsed.classes) = 1
    /\ "A" \notin KnownNames
    /\ "A" \in QualifierNames(file.tree, "MethodInvocation")
    /\ "A" \in FieldTypeNames(file.tree)
    /\ "A" \in ReferenceTypeNames(file.tree)
    /\ parsed.classes[1].dependencies = {"I1", "I2"}

\* C7: collect_class_dependencies returns every known name that occurs
\* anywhere in the declaration's subtree as a qualifier of a method
\* invocation or member reference, a declared field type, a reference-type
\* usage or a generic type-argument name, including invocations located in
\* constructors, field initializers and initializer blocks.
C7_EveryReferencedKnownNameIsFound ==
    ParseDone =>
        \A i \in 1..Len(parsed.classes) :
            (ReferencedNames(DeclOf(parsed.classes[i])) \cap KnownNames)
                \subseteq parsed.classes[i].dependencies

----------------------------------------------------------------------------
(* Claims about relationship derivation *)

Drawn == pc = "drawn"

ExtendsEdge(source, target) == target \o " <|-- " \o source \o " : extends"
ImplementsEdge(source, target) == target \o " <|.. " \o source \o " : implements"
UsesEdge(source, target) == source \o " ..> " \o target \o " : uses"

\* the entities of the parsed data
Entities(data) ==
    UNION {Range(data[i].classes) : i \in {k \in 1..Len(data) : data[k] # NoResult}}

\* C8: the relationship set built by generate_architecture_diagram never
\* contains a 'uses' edge whose source and target are the same entity, even
\* when that entity's raw dependency set contains the entity's own name.
C8_NoSelfUsesEdge ==
    Drawn => \A c \in Entities(all_parsed_data) : UsesEdge(c.name, c.name) \notin relationships

\* class B refers to itself and to class A; both are in its raw dependency
\* set, and only the edge to A is drawn
C8_Witness ==
    /\ Drawn
    /\ file # NoFile
    /\ Len(parsed.classes) = 1
    /\ parsed.classes[1].dependencies = {"A", "B"}
    /\ relationships = {UsesEdge("B", "A")}

\* C9: the relationship set held by the DiagramBuilder after
\* generate_architecture_diagram is exactly one 'extends' edge per entity with
\* a non-empty extends name, one 'implements' edge per (entity, implemented
\* name), and one 'uses' edge per (entity, dependency name other than the
\* entity itself); it is the same set for every ordering of the files.
C9_RelationshipsAreExactlyTheDerivedEdges ==
    Drawn =>
        /\ relationships =
              {ExtendsEdge(c.name, c.extends) :
                  c \in {e \in Entities(all_parsed_data) : e.extends \notin {None, ""}}}
              \cup UNION {{ImplementsEdge(c.name, iface) : iface \in Range(c.implements)} :
                            c \in Entities(all_parsed_data)}
              \cup UNION {{UsesEdge(c.name, dep) : dep \in c.dependencies \ {c.name}} :
                            c \in Entities(all_parsed_data)}
        /\ relationships =
              FilledBuilder(
                  [i \in 1..Len(all_parsed_data) |->
                      all_parsed_data[Len(all_parsed_data) + 1 - i]]).relationships

\* two files, the second repeating edges of the first, with an entry without
\* a result between or beside them
C9_Witness ==
    /\ Drawn
    /\ file = NoFile
    /\ Len(all_parsed_data) = 2
    /\ all_parsed_data[1] # NoResult /\ Len(all_parsed_data[1].classes) = 2
    /\ all_parsed_data[2] # NoResult /\ Len(all_parsed_data[2].classes) = 1
    /\ all_parsed_data[2].classes[1] = ClassInfo("B", "A", <<"I1", "I2">>, {"A", "B"})
    /\ Cardinality(relationships) = 6

----------------------------------------------------------------------------
(* End-to-end scenario B *)

\* the class declares a method that invokes a method on the variable `other`
InvokesOnOther(class_decl) ==
    \E m \in NodesOfKind(class_decl, "MethodDeclaration") :
        "other" \in QualifierNames(m, "MethodInvocation")

\* the types with which `other` is declared inside the subtree, as a field, a
\* local variable or a parameter
DeclaredTypesOfOther(class_decl) ==
    {field_type(d).name : d \in
        {n \in NodesOfKind(class_decl, "FieldDeclaration")
                \cup NodesOfKind(class_decl, "LocalVariableDeclaration") :
            \E k \in 1..Len(declarators_of(n)) : declarators_of(n)[k].name = "other"}}
    \cup {p.children[2].name : p \in
        {n \in NodesOfKind(class_decl, "FormalParameter") : n.name = "other"}}

\* where B does not declare `other` it inherits it, declared with type C in
\* another file
InheritedTypeOfOther == "C"

TypesOfOther(class_decl) ==
    IF DeclaredTypesOfOther(class_decl) # {} THEN DeclaredTypesOfOther(class_decl)
    ELSE {InheritedTypeOfOther}

ScenarioB == Drawn /\ file # NoFile /\ Len(parsed.classes) = 1
             /\ InvokesOnOther(DeclOf(parsed.classes[1]))

\* C10 (as stated): when a method of class B invokes other.doX() and the type
\* of `other` is in the symbol index, the relationships include a 'uses' edge
\* from B to the type of `other`, whether or not `other` is declared inside
\* B's own subtree.
C10_UsesEdgeToTypeOfOther ==
    ScenarioB =>
        \A T \in TypesOfOther(DeclOf(parsed.classes[1])) \cap KnownNames :
            UsesEdge(parsed.classes[1].name, T) \in relationships

\* C10 (amended): when a method of class B invokes other.doX(), `other` is
\* declared inside B's own subtree (field, local variable or parameter) with
\* a type that is in the symbol index and is not B itself, the relationships
\* include a 'uses' edge from B to that type.
C10_UsesEdgeToDeclaredTypeOfOther ==
    ScenarioB =>
        \A T \in (DeclaredTypesOfOther(DeclOf(parsed.classes[1])) \cap KnownNames)
                    \ {parsed.classes[1].name} :
            UsesEdge(parsed.classes[1].name, T) \in relationships

\* `other` is a local variable of type C of a method of B, and another method
\* invokes other.doX()
C10_Witness ==
    /\ ScenarioB
    /\ NodesOfKind(file.tree, "FieldDeclaration") = {}
    /\ NodesOfKind(file.tree, "FormalParameter") = {}
    /\ DeclaredTypesOfOther(DeclOf(parsed.classes[1])) = {"C"}
    /\ "C" \in KnownNames
    /\ UsesEdge("B", "C") \in relationships

----------------------------------------------------------------------------
(* Files for member extraction: one top-level class A, with or without a   *)
(* position, whose body holds up to MaxMembers members.  The k-th member   *)
(* starts on line 2k, and what its body holds is on line 2k+1.             *)

MemberKinds ==
    {"method", "abstract", "empty", "unpositioned", "unpositioned_body",
     "nested", "field", "fields", "untyped", "nested_field"}

Suffix(k) == ToString(k)

Statement(line) ==
    StatementExpression(MethodInvocation(None, "run", line), line)

MemberDecl(kind, k) ==
    LET line == 2 * k
        m == "m" \o Suffix(k)
    IN  CASE kind = "method" ->          \* public void m() {  run();  }
                MethodDeclaration(m, Position(line), {"public"}, <<>>,
                                  List(<<Statement(line + 1)>>))
          [] kind = "abstract" ->        \* abstract void m();
                MethodDeclaration(m, Position(line), {"abstract"}, <<>>, Absent)
          [] kind = "empty" ->           \* void m() {}
                MethodDeclaration(m, Position(line), {}, <<>>, List(<<>>))
          [] kind = "unpositioned" ->    \* void m(); in a tree without positions
                MethodDeclaration(m, NoPosition, {}, <<>>, Absent)
          [] kind = "unpositioned_body" ->
                MethodDeclaration(m, NoPosition, {"public"}, <<>>,
                                  List(<<Statement(line + 1)>>))
          [] kind = "nested" ->          \* class Inner { void im() {} }
                PlainClass("Inner" \o Suffix(k), line,
                           <<MethodDeclaration("i" \o m, Position(line + 1), {}, <<>>,
                                               List(<<>>))>>)
          [] kind = "field" ->           \* private int f;
                FieldDeclaration(Position(line), {"private"}, BasicType("int"),
                                 <<VariableDeclarator("f" \o Suffix(k), Absent)>>)
          [] kind = "fields" ->          \* public static A x, y;
                FieldDeclaration(Position(line), {"public", "static"},
                                 ReferenceType("A", <<>>),
                                 <<VariableDeclarator("x" \o Suffix(k), Absent),
                                   VariableDeclarator("y" \o Suffix(k), Absent)>>)
          [] kind = "untyped" ->         \* a declaration whose type the tree lacks
                FieldDeclaration(Position(line), {}, Absent,
                                 <<VariableDeclarator("u" \o Suffix(k), Absent)>>)
          [] kind = "nested_field" ->    \* class Inner { int g; }
                PlainClass("Inner" \o Suffix(k), line,
                           <<FieldDeclaration(Position(line + 1), {}, BasicType("int"),
                                 <<VariableDeclarator("g" \o Suffix(k), Absent)>>)>>)

MemberFiles ==
    {[file_path |-> "src/A.java", original_lines |-> SourceLines(2 * MaxMembers + 2),
      parse |-> "ok",
      tree |-> CompilationUnit(PackageDeclaration("com.example"),
                  <<ClassDeclaration("A", position, {"public"},
                        [k \in 1..Len(kinds) |-> MemberDecl(kinds[k], k)],
                        Absent, Absent)>>)] :
        position \in {Position(1), NoPosition},
        kinds \in SeqsUpTo(MemberKinds, MaxMembers)}

InitMembers ==
    /\ NoOutput
    /\ pc = "extract"
    /\ file \in MemberFiles
    /\ project_class_index = IndexOver({"A"})
    /\ parsed = NotParsed
    /\ NoSpan
    /\ NoSnippet
    /\ NoDiagram
    /\ NoBatch

SpecMembers == InitMembers /\ [][NextPipeline]_vars

----------------------------------------------------------------------------
(* Claims about member extraction *)

RECURSIVE Concat(_)
Concat(seqs) == IF seqs = <<>> THEN <<>> ELSE Head(seqs) \o Concat(Tail(seqs))

RECURSIVE InSourceOrder(_, _)
\* the nodes of one class in a subtree, the root included, in source order
InSourceOrder(v, kind) ==
    (IF v.tag = "node" /\ v.kind = kind THEN <<v>> ELSE <<>>)
    \o Concat([i \in 1..Len(v.children) |-> InSourceOrder(v.children[i], kind)])

MethodsOf(class_decl) == InSourceOrder(class_decl, "MethodDeclaration")

\* the method declarations that are direct members of the type's own body
DirectMethodsOf(class_decl) ==
    SelectSeq(class_decl.children[2].children, LAMBDA v : v.kind = "MethodDeclaration")

LineOf(n) == IF n.position = NoPosition THEN 0 ELSE n.position[1]

Lines == file.original_lines

\* the lines numbered first..last of the file, as far as the file has them
SourceText(first, last) == ConcatFromTo(Lines, first, Min(last, Len(Lines)))

\* the end line of the body of a method: one past the last line its
\* statements touch; the method's own start line when it has no statements
BodyEndLine(method) ==
    LET body == method.children[6]
    IN  IF Truthy(body) /\ PositionedLines(body) # {}
        THEN SetMax(PositionedLines(body)) + 1
        ELSE LineOf(method)

HasMethodsOf(entry, methods) ==
    /\ Len(entry.methods) = Len(methods)
    /\ \A i \in 1..Len(methods) :
          /\ entry.methods[i].name = methods[i].name
          /\ entry.methods[i].start_line = LineOf(methods[i])
          /\ entry.methods[i].modifiers = methods[i].modifiers

\* C17 (as stated): a method's snippet covers the lines from the method's own
\* start line to the end line of its body, and when the method has an empty or
\* absent body the span ends at the method's own start line, so the snippet
\* is just the signature line.
C17_MethodSnippetEndsWithBodyOrSignature ==
    ParseDone =>
        \A e \in Range(parsed.classes) :
            \A i \in 1..Len(e.methods) :
                LET method == MethodsOf(DeclOf(e))[i]
                IN  method.position # NoPosition =>
                        e.methods[i].code_snippet =
                            SourceText(LineOf(method), BodyEndLine(method))

\* C17 (amended): a positioned method's snippet covers the lines from the
\* method's own start line to one line past the greatest line of the method's
\* subtree, as far as the file has them; when the method has an empty or
\* absent body and nothing of it stands on a later line, that is the line
\* after its start line, so the snippet is the signature line and the line
\* that follows it.
C17_MethodSnippetEndsOnePastLastLine ==
    ParseDone =>
        \A e \in Range(parsed.classes) :
            \A i \in 1..Len(e.methods) :
                LET method == MethodsOf(DeclOf(e))[i]
                IN  method.position # NoPosition =>
                        /\ e.methods[i].code_snippet =
                              SourceText(LineOf(method), SetMax(PositionedLines(method)) + 1)
                        /\ (/\ ~Truthy(method.children[6])
                            /\ SetMax(PositionedLines(method)) = LineOf(method)) =>
                              e.methods[i].code_snippet =
                                  SourceText(LineOf(method), LineOf(method) + 1)

\* an abstract method on line 2 and a method with a statement on line 5
C17_Witness ==
    /\ ParseDone
    /\ Len(parsed.classes) = 1
    /\ Len(parsed.classes[1].methods) = 2
    /\ "abstract" \in parsed.classes[1].methods[1].modifiers
    /\ parsed.classes[1].methods[1].code_snippet = SourceLine(2) \o SourceLine(3)
    /\ parsed.classes[1].methods[2].code_snippet =
          SourceLine(4) \o SourceLine(5) \o SourceLine(6)

\* C18 (as stated): the 'methods' list of an emitted class entry contains
\* exactly the method declarations that are direct members of that type's own
\* body, and no method declared inside a nested type.
C18_MethodsAreDirectMembersOnly ==
    ParseDone =>
        \A e \in Range(parsed.classes) : HasMethodsOf(e, DirectMethodsOf(DeclOf(e)))

\* C18 (amended): the 'methods' list of an emitted class entry contains, in
\* source order, every method declaration anywhere in that type's subtree:
\* its direct members and the methods declared inside its nested types.
C18_MethodsOfTheWholeSubtree ==
    ParseDone =>
        \A e \in Range(parsed.classes) : HasMethodsOf(e, MethodsOf(DeclOf(e)))

\* class A has a nested class with a method, then a method of its own
C18_Witness ==
    /\ ParseDone
    /\ parsed.classes[1].name = "A"
    /\ Len(DirectMethodsOf(DeclOf(parsed.classes[1]))) = 1
    /\ Len(parsed.classes[1].methods) = 2
    /\ parsed.classes[1].methods[1].name = "im1"
    /\ parsed.classes[1].methods[2].name = "m2"

\* the records of one field declaration: one per declared variable
RecordsOf(field) ==
    [k \in 1..Len(declarators_of(field)) |->
        [name |-> declarators_of(field)[k].name,
         type |-> IF field_type(field).tag = "node" THEN field_type(field).name
                  ELSE "Object",
         modifiers |-> field.modifiers]]

FieldsOf(class_decl) ==
    LET found == InSourceOrder(class_decl, "FieldDeclaration")
    IN  Concat([i \in 1..Len(found) |-> RecordsOf(found[i])])

\* C19: every field declaration yields exactly one field record per declared
\* variable, in declaration order, each carrying that declaration's type name
\* and modifiers; the type name is 'Object' when the declaration's type node
\* has no name.
C19_OneFieldRecordPerVariable ==
    ParseDone =>
        \A e \in Range(parsed.classes) : e.fields = FieldsOf(DeclOf(e))

\* a declaration of two variables, then a declaration without a type
C19_Witness ==
    /\ ParseDone
    /\ Len(parsed.classes) = 1
    /\ Len(parsed.classes[1].fields) = 3
    /\ parsed.classes[1].fields[1] =
          [name |-> "x1", type |-> "A", modifiers |-> {"public", "static"}]
    /\ parsed.classes[1].fields[2] =
          [name |-> "y1", type |-> "A", modifiers |-> {"public", "static"}]
    /\ parsed.classes[1].fields[3] = [name |-> "u2", type |-> "Object", modifiers |-> {}]

\* C20: for a class or method node without position information the recorded
\* start_line is 0, the sentinel get_start_line returns, and the recorded
\* code_snippet is the empty string although get_end_line is not zero; the
\* extraction of the file still returns a result, with the class's entry.
C20_MissingPositionIsASentinel ==
    ParseDone =>
        /\ parsed # NoResult
        /\ \A c \in TopLevelClasses(file.tree) :
              \E e \in Range(parsed.classes) : e.name = c.name
        /\ \A e \in Range(parsed.classes) :
              /\ DeclOf(e).position = NoPosition =>
                    /\ e.start_line = 0
                    /\ e.code_snippet = ""
                    /\ get_end_line(DeclOf(e)) > 0
              /\ \A i \in 1..Len(e.methods) :
                    MethodsOf(DeclOf(e))[i].position = NoPosition =>
                        /\ e.methods[i].start_line = 0
                        /\ e.methods[i].code_snippet = ""
                        /\ get_end_line(MethodsOf(DeclOf(e))[i]) > 0

\* neither the class nor its method has a position, a statement of the
\* method has one
C20_Witness ==
    /\ ParseDone
    /\ Len(parsed.classes) = 1
    /\ DeclOf(parsed.classes[1]).position = NoPosition
    /\ Len(parsed.classes[1].methods) = 1
    /\ MethodsOf(DeclOf(parsed.classes[1]))[1].position = NoPosition
    /\ get_end_line(DeclOf(parsed.classes[1])) = 4
    /\ parsed.classes[1].code_snippet = ""
    /\ parsed.classes[1].methods[1].code_snippet = ""

----------------------------------------------------------------------------
(* The files of a project, as a batch: the k-th file of a batch has its    *)
(* own path.  A file parses to a tree, or parsing it raises a syntax error *)
(* or another exception, or the file cannot be opened.                     *)

\* void m() { q.doX(); }
CallingMethod(qualifier, line) ==
    MethodDeclaration("m", Position(line), {"public"}, <<>>,
                      List(<<StatementExpression(Invoke(qualifier, line), line)>>))

\* a CompilationUnit with import declarations
ImportingUnit(package, imports, types) ==
    Node("CompilationUnit", None, None, NoPosition, {},
         <<package, List(imports), List(types)>>)

ProjectSources ==
    {"class A", "package; class A", "class A { class Inner }",
     "package; interface I1 { class Inner }", "package; class B { A.doX() }",
     "package; import A; class A; class B { A.doX() }", "class A (no position)"}

ProjectTree(source) ==
    LET package == PackageDeclaration("com.example")
    IN  CASE source = "class A" -> CompilationUnit(Absent, <<PlainClass("A", 1, <<>>)>>)
          [] source = "package; class A" ->
                CompilationUnit(package, <<PlainClass("A", 1, <<>>)>>)
          [] source = "class A { class Inner }" ->
                CompilationUnit(Absent, <<TypeDecl("nested", "A", 1)>>)
          [] source = "package; interface I1 { class Inner }" ->
                CompilationUnit(package, <<TypeDecl("interface_nested", "I1", 1)>>)
          [] source = "package; class B { A.doX() }" ->
                CompilationUnit(package, <<PlainClass("B", 1, <<CallingMethod("A", 2)>>)>>)
          [] source = "package; import A; class A; class B { A.doX() }" ->
                ImportingUnit(package, <<Import("com.example.A")>>,
                              <<PlainClass("A", 1, <<>>),
                                PlainClass("B", 2, <<CallingMethod("A", 3)>>)>>)
          [] source = "class A (no position)" ->
                CompilationUnit(Absent, <<ClassDeclaration("A", NoPosition, {"public"}, <<>>,
                                                           Absent, Absent)>>)

Failures == {"syntax_error", "error", "unreadable"}

FilePath(k) == "src/F" \o ToString(k) \o ".java"

ProjectFile(k, content) ==
    IF content \in Failures
    THEN [file_path |-> FilePath(k), original_lines |-> SourceLines(1),
          parse |-> content, tree |-> NoNode]
    ELSE [file_path |-> FilePath(k), original_lines |-> SourceLines(4),
          parse |-> "ok", tree |-> ProjectTree(content)]

Batches ==
    {[k \in 1..Len(contents) |-> ProjectFile(k, contents[k])] :
        contents \in SeqsUpTo(ProjectSources \cup Failures, MaxBatch)}

NotIndexed == [n \in {"not built"} |-> None]

InitIndex ==
    /\ NoOutput
    /\ pc = "index"
    /\ java_files \in Batches
    /\ cursor = 0
    /\ file = NoFile
    /\ project_class_index = NotIndexed
    /\ parsed = NotParsed
    /\ NoSpan
    /\ NoSnippet
    /\ NoDiagram

\* class_index = build_class_index(java_files)
BuildClassIndex ==
    /\ UNCHANGED output_vars
    /\ pc = "index"
    /\ project_class_index' = build_class_index(java_files)
    /\ pc' = "indexed"
    /\ UNCHANGED <<node, span, snip, snippet, file, parsed, all_parsed_data,
                   packages, relationships, buffer, diagram, java_files, cursor>>

NextIndex == BuildClassIndex

SpecIndex == InitIndex /\ [][NextIndex]_vars

----------------------------------------------------------------------------
(* The driver, main.py lines 520-548: over the batch in list order, read    *)
(* the file, extract it with main.py's parse_java_file and keep the result; *)
(* then draw the diagram of what was kept.  It makes no index pass.         *)

InitDriver ==
    /\ NoOutput
    /\ pc = "driver"
    /\ java_files \in Batches
    /\ cursor = 0
    /\ file = NoFile
    /\ project_class_index = NotIndexed
    /\ parsed = NotParsed
    /\ NoSpan
    /\ NoSnippet
    /\ NoDiagram

\* one turn of the loop of lines 532-542: a file that cannot be read is
\* skipped (continue); another is parsed and its result, when there is one,
\* appended
ProcessFile ==
    /\ UNCHANGED output_vars
    /\ pc = "driver"
    /\ cursor < Len(java_files)
    /\ cursor' = cursor + 1
    /\ file' = java_files[cursor + 1]
    /\ IF file'.parse = "unreadable"
       THEN UNCHANGED <<parsed, all_parsed_data>>
       ELSE /\ parsed' = main_parse_java_file(file')
            /\ all_parsed_data' = AppendParsed(all_parsed_data, parsed')
    /\ UNCHANGED <<pc, node, span, snip, snippet, project_class_index,
                   packages, relationships, buffer, diagram, java_files>>

\* lines 547-550: if all_parsed_data: generate_architecture_diagram(...)
FinishRun ==
    /\ UNCHANGED output_vars
    /\ pc = "driver"
    /\ cursor = Len(java_files)
    /\ pc' = "complete"
    /\ IF all_parsed_data # <<>>
       THEN LET call == main_generate_architecture_diagram(all_parsed_data)
            IN  /\ packages' = call.packages
                /\ relationships' = call.relationships
       ELSE UNCHANGED <<packages, relationships>>
    /\ UNCHANGED <<node, span, snip, snippet, file, project_class_index, parsed,
                   all_parsed_data, buffer, diagram, java_files, cursor>>

NextDriver == ProcessFile \/ FinishRun

SpecDriver == InitDriver /\ [][NextDriver]_vars

----------------------------------------------------------------------------
(* Claims about the driver *)

\* at least one extraction has begun
ExtractionBegun == pc \in {"driver", "complete"} /\ cursor >= 1

\* the entries kept so far that the extractor built from file number k
EntriesOf(k) ==
    {i \in 1..Len(all_parsed_data) : all_parsed_data[i].file_path = FilePath(k)}

\* the known names a class of a tree invokes a method on, inside its methods
InvokedNames(class_decl, known_classes) ==
    UNION {QualifierNames(m, "MethodInvocation") :
              m \in NodesOfKind(class_decl, "MethodDeclaration")} \cap known_classes

\* C11: in every run of the driver, once an extraction has begun the symbol
\* index is the completed index of the whole batch, build_class_index over
\* all its files, and every extraction has read it: a class that invokes a
\* method on a name of that index has the name among its dependencies.
C11_IndexCompleteBeforeExtraction ==
    ExtractionBegun =>
        /\ project_class_index = build_class_index(java_files)
        /\ \A i \in 1..Len(all_parsed_data) :
              \A j \in 1..Len(all_parsed_data[i].classes) :
                  \A c \in NodesOfKind(java_files[CHOOSE k \in 1..Len(java_files) :
                                       i \in EntriesOf(k)].tree, "ClassDeclaration") :
                      c.name = all_parsed_data[i].classes[j].name =>
                          InvokedNames(c, DOMAIN build_class_index(java_files))
                              \subseteq all_parsed_data[i].classes[j].dependencies

\* the files the driver's loop fails on: the file cannot be read, parsing it
\* raises, or the extraction reads the line of a position that is None
FailsExtraction(java_file) ==
    \/ java_file.parse \in Failures
    \/ \E c \in NodesOfKind(java_file.tree, "ClassDeclaration") : main_raises(c)

Handled == SubSeq(java_files, 1, cursor)

\* C12: a file whose parse raises a syntax error, or whose extraction raises
\* any other exception, yields None without ending the loop; the output list
\* has no entry for it, and it holds, in order, the entries of the other
\* files handled so far, each as the extractor builds it from that file alone.
C12_ExtractionFailureIsIsolated ==
    pc \in {"driver", "complete"} =>
        LET others == SelectSeq(Handled, LAMBDA f : ~FailsExtraction(f))
        IN  /\ all_parsed_data = [k \in 1..Len(others) |-> main_parse_java_file(others[k])]
            /\ \A k \in 1..cursor :
                  FailsExtraction(java_files[k]) => EntriesOf(k) = {}
            /\ \A k \in 1..cursor :
                  ~FailsExtraction(java_files[k]) => Cardinality(EntriesOf(k)) = 1
            /\ (/\ cursor >= 1
                /\ FailsExtraction(java_files[cursor])
                /\ java_files[cursor].parse # "unreadable") => parsed = NoResult
            /\ pc = "complete" => cursor = Len(java_files)

\* a file with a syntax error stands before a file that is extracted, and the
\* run has ended with the second file's entry alone
C12_Witness ==
    /\ pc = "complete"
    /\ Len(java_files) = 2
    /\ java_files[1].parse = "syntax_error"
    /\ java_files[2].parse = "ok"
    /\ Len(all_parsed_data) = 1
    /\ all_parsed_data[1].file_path = FilePath(2)
    /\ Len(all_parsed_data[1].classes) = 2
    /\ relationships # {}

----------------------------------------------------------------------------
(* Claims about the symbol index pass *)

Indexed == pc = "indexed"

Readable(files) == SelectSeq(files, LAMBDA f : f.parse = "ok")

\* the names of the class declarations of a tree, at any nesting depth
ClassNames(tree) == {c.name : c \in NodesOfKind(tree, "ClassDeclaration")}

PackageName(tree) ==
    IF package_of(tree).kind = "PackageDeclaration" THEN package_of(tree).name ELSE "default"

\* the positions in the list of the files that parse and declare the name
Declaring(files, name) ==
    {k \in 1..Len(files) : files[k].parse = "ok" /\ name \in ClassNames(files[k].tree)}

DeclaredNames(files) ==
    UNION {ClassNames(files[k].tree) : k \in {j \in 1..Len(files) : files[j].parse = "ok"}}

\* C13: in build_class_index a file that cannot be read or parsed contributes
\* no entry and does not abort the pass: the returned index is the index of
\* the input list without the failing files, and in particular it has the
\* entries of the files that follow a failing one.
C13_FailingFileLeavesIndexUntouched ==
    Indexed =>
        /\ project_class_index = build_class_index(Readable(java_files))
        /\ \A k \in 1..Len(java_files) :
              java_files[k].parse = "ok" =>
                  ClassNames(java_files[k].tree) \subseteq DOMAIN project_class_index

\* a file that fails stands before a file that declares a class
C13_Witness ==
    /\ Indexed
    /\ Len(java_files) = 2
    /\ java_files[1].parse \in Failures
    /\ java_files[2].parse = "ok"
    /\ DOMAIN project_class_index = {"A", "Inner"}

\* C14: after build_class_index over an ordered file list, every name
\* declared in at least one successfully parsed file is mapped to the package
\* of the last file in list order that declares it, 'default' when that file
\* has no package clause.
C14_LastWriteWins ==
    Indexed =>
        \A name \in DeclaredNames(java_files) :
            /\ name \in DOMAIN project_class_index
            /\ project_class_index[name] =
                  PackageName(java_files[SetMax(Declaring(java_files, name))].tree)

\* class A is declared in a package by the first file and without a package
\* clause by the second
C14_Witness ==
    /\ Indexed
    /\ Len(java_files) = 2
    /\ Declaring(java_files, "A") = {1, 2}
    /\ PackageName(java_files[1].tree) = "com.example"
    /\ project_class_index["A"] = "default"

\* C15: the key set of the index returned by build_class_index is the set of
\* the names of all class declarations, top-level and nested at any depth, of
\* the successfully parsed files.
C15_IndexCoversNestedDeclarations ==
    Indexed => DOMAIN project_class_index = DeclaredNames(java_files)

\* a class nested in a class, and a class nested in an interface whose own
\* name is not a class name
C15_Witness ==
    /\ Indexed
    /\ Len(java_files) = 2
    /\ java_files[1].tree.children[3].children[1].kind = "ClassDeclaration"
    /\ java_files[2].parse = "ok"
    /\ java_files[2].tree.children[3].children[1].kind = "InterfaceDeclaration"
    /\ DOMAIN project_class_index = {"A", "Inner"}

----------------------------------------------------------------------------
(* Claims about inheritance and usage *)

\* the names an entry records as extended or implemented
InheritedNames(entry) == {entry.extends} \cup Range(entry.implements)

\* C30: when the name a class extends or implements is in the symbol index,
\* the class's dependencies include that name, and the relationships drawn
\* from the entry hold a 'uses' edge to it next to the extends or implements
\* edge.
C30_InheritanceIsAlsoUsage ==
    ParseDone =>
        \A i \in 1..Len(parsed.classes) :
            LET entry == parsed.classes[i]
            IN  \A T \in InheritedNames(entry) \cap KnownNames :
                    /\ T \in entry.dependencies
                    /\ Drawn =>
                          /\ UsesEdge(entry.name, T) \in relationships
                          /\ T = entry.extends =>
                                ExtendsEdge(entry.name, T) \in relationships
                          /\ T \in Range(entry.implements) =>
                                ImplementsEdge(entry.name, T) \in relationships

\* class B extends A implements I1, I2 {} with an empty body and A, I1, I2 in
\* the index: the three names are B's dependencies and each has both edges
C30_Witness ==
    /\ Drawn
    /\ file # NoFile
    /\ Len(parsed.classes) = 1
    /\ NodesOfKind(file.tree, "MethodDeclaration") = {}
    /\ NodesOfKind(file.tree, "FieldDeclaration") = {}
    /\ parsed.classes[1].extends = "A"
    /\ parsed.classes[1].dependencies = {"A", "I1", "I2"}
    /\ {UsesEdge("B", "A"), ExtendsEdge("B", "A"),
        UsesEdge("B", "I1"), ImplementsEdge("B", "I1")} \subseteq relationships

----------------------------------------------------------------------------
(* code_parser.py: a sequence of parse_java_file calls against one symbol  *)
(* index.  The caller has read each file's lines; the k-th call extracts   *)
(* the k-th file of the batch.                                             *)

\* a bug: extraction records the classes of the file in the index it is handed
project_class_index_after_recording(java_file, class_index) ==
    IndexFile(class_index, java_file)

\* the mapping handed to parse_java_file, after the call: line 167 copies its
\* keys, and nothing in parse_java_file or in what it calls is handed the
\* mapping or assigns to it
project_class_index_after(java_file, class_index) == class_index

\* the files whose lines a caller can hand over
ExtractionBatches ==
    {batch \in Batches : \A k \in 1..Len(batch) : batch[k].parse # "unreadable"}

InitExtraction ==
    /\ NoOutput
    /\ pc = "extraction"
    /\ java_files \in ExtractionBatches
    /\ cursor = 0
    /\ file = NoFile
    /\ project_class_index \in
          {build_class_index(java_files), IndexOver({}), IndexOver({"A", "I1"})}
    /\ parsed = NotParsed
    /\ NoSpan
    /\ NoSnippet
    /\ NoDiagram

\* parse_java_file(file_path, original_lines, project_class_index), for the
\* next file of the batch; all_parsed_data keeps what each call returned
ExtractFile ==
    /\ pc = "extraction"
    /\ cursor < Len(java_files)
    /\ cursor' = cursor + 1
    /\ file' = java_files[cursor + 1]
    /\ parsed' = parse_java_file(file', project_class_index)
    /\ all_parsed_data' = Append(all_parsed_data, parsed')
    /\ project_class_index' = project_class_index_after(file', project_class_index)
    /\ UNCHANGED output_vars
    /\ UNCHANGED <<pc, node, span, snip, snippet, packages, relationships, buffer,
                   diagram, java_files>>

NextExtraction == ExtractFile

SpecExtraction == InitExtraction /\ [][NextExtraction]_vars

\* C21: a parse_java_file call leaves the symbol index as it was, and what
\* each call of a sequence returned is what extracting its file against that
\* index returns, whatever was extracted before it.
C21_IndexReadOnlyDuringExtraction ==
    [][/\ project_class_index' = project_class_index
       /\ \A k \in 1..Len(all_parsed_data') :
             all_parsed_data'[k] = parse_java_file(java_files[k], project_class_index)
      ]_vars

\* with an empty index, class A was extracted and then class B, which calls
\* A.doX(): the index is still empty and B has no dependency
C21_Witness ==
    /\ pc = "extraction"
    /\ cursor = 2
    /\ project_class_index = IndexOver({})
    /\ java_files[1].parse = "ok"
    /\ "A" \in ClassNames(java_files[1].tree)
    /\ Len(all_parsed_data[1].classes) = 1
    /\ Len(all_parsed_data[2].classes) = 1
    /\ all_parsed_data[2].classes[1].name = "B"
    /\ "A" \in QualifierNames(java_files[2].tree, "MethodInvocation")
    /\ all_parsed_data[2].classes[1].dependencies = {}

----------------------------------------------------------------------------
(* diagram_builder.py: formatting one member, as a field and as a method   *)

ModifierWords == {"public", "private", "protected", "static", "final", "abstract"}

\* the dictionaries handed to format_field and format_method
FormatMembers ==
    {[name |-> "x", type |-> type, modifiers |-> modifiers] :
        type \in {"int", "String"}, modifiers \in SUBSET ModifierWords}

InitFormat ==
    /\ pc = "format"
    /\ fmt \in {[member |-> member, field |-> None, method |-> None] :
                   member \in FormatMembers}
    /\ llm = NoLlm /\ annotation = NoAnnotation /\ files_written = <<>>
    /\ rebuilt = NotBuilt
    /\ NoSpan
    /\ NoSnippet
    /\ NoExtraction
    /\ NoDiagram
    /\ NoBatch

\* format_field(member) and format_method(member)
FormatMember ==
    /\ pc = "format"
    /\ fmt' = [fmt EXCEPT !.field = format_field(fmt.member),
                          !.method = format_method(fmt.member)]
    /\ pc' = "formatted"
    /\ UNCHANGED <<llm, annotation, files_written, rebuilt>>
    /\ UNCHANGED <<node, span, snip, snippet, file, project_class_index, parsed,
                   all_parsed_data, packages, relationships, buffer, diagram,
                   java_files, cursor>>

NextFormat == FormatMember

SpecFormat == InitFormat /\ [][NextFormat]_vars

Formatted == pc = "formatted"

\* C24: the text format_field and format_method return starts with '-' if
\* the member's modifiers hold private, else with '#' if they hold protected,
\* else with '+' if they hold public, else with '~'.
C24_VisibilitySymbol ==
    Formatted =>
        LET modifiers == fmt.member.modifiers
            symbol == IF "private" \in modifiers THEN "-"
                      ELSE IF "protected" \in modifiers THEN "#"
                      ELSE IF "public" \in modifiers THEN "+"
                      ELSE "~"
        IN  /\ SubSeq(fmt.field, 1, 2) = symbol \o " "
            /\ SubSeq(fmt.method, 1, 2) = symbol \o " "

\* a static final member with no access modifier is drawn package-private
C24_Witness ==
    /\ Formatted
    /\ fmt.member.modifiers = {"static", "final"}
    /\ fmt.member.type = "int"
    /\ fmt.field = "~ x : int {{static, final}}"
    /\ fmt.method = "~ x() {{static}}"

----------------------------------------------------------------------------
(* diagram_builder.py: rendering the same DiagramBuilder a second time     *)

\* builder.build() once more, on the builder of the first call, with no
\* add_class or add_relationship in between
BuildAgain ==
    /\ pc = "drawn"
    /\ LET call == build([packages |-> packages, relationships |-> relationships,
                          buffer |-> buffer])
       IN  /\ buffer' = call.buffer
           /\ rebuilt' = call.document
    /\ pc' = "rebuilt"
    /\ UNCHANGED <<llm, annotation, fmt, files_written>>
    /\ UNCHANGED <<node, span, snip, snippet, file, project_class_index, parsed,
                   all_parsed_data, packages, relationships, diagram, java_files,
                   cursor>>

NextRebuild == GenerateArchitectureDiagram \/ BuildAgain

SpecRebuild == InitDiagram /\ [][NextRebuild]_vars

\* how many times a word occurs in a text
Occurrences(word, text) ==
    Cardinality({i \in 1..(Len(text) - Len(word) + 1) :
                    SubSeq(text, i, i + Len(word) - 1) = word})

\* C25: generate_architecture_diagram writes the diagram it built to
\* architecture.puml in the output directory and returns None.
C25_DiagramWrittenToFileNothingReturned ==
    Drawn =>
        /\ diagram = None
        /\ "architecture.puml" \in DOMAIN files_written
        /\ files_written["architecture.puml"] = JoinWith("\n", buffer)

\* C29: a second build() on the same builder, with nothing added in between,
\* returns the document the first returned, with exactly one '@startuml'
\* and one '@enduml'.
C29_BuildIsIdempotent ==
    pc = "rebuilt" =>
        /\ rebuilt = diagram
        /\ Occurrences("@startuml", rebuilt) = 1
        /\ Occurrences("@enduml", rebuilt) = 1

----------------------------------------------------------------------------
(* llm_handler.py: get_llm_comment.  The client is modelled by whether it  *)
(* is there (None is falsy) and by what each generate_content call does:   *)
(* raise an exception, or return a response with a text.  A string of the  *)
(* module cannot hold a backquote, so the Markdown fence of three          *)
(* backquotes is written as three tildes.                                  *)

MaxRetries == 3             \* num_retries handed to get_llm_comment: 0..MaxRetries, or the default
initial_retry_delay == 2    \* _initial_retry_delay
DefaultNumRetries == 8      \* num_retries=8

Fence == "~~~"

RECURSIVE Pow(_, _)
Pow(base, exponent) == IF exponent = 0 THEN 1 ELSE base * Pow(base, exponent - 1)

RECURSIVE Sum(_)
Sum(numbers) == IF numbers = <<>> THEN 0 ELSE Head(numbers) + Sum(Tail(numbers))

\* text.startswith(prefix), text.endswith(suffix)
startswith(text, prefix) ==
    Len(text) >= Len(prefix) /\ SubSeq(text, 1, Len(prefix)) = prefix

endswith(text, suffix) ==
    Len(text) >= Len(suffix)
    /\ SubSeq(text, Len(text) - Len(suffix) + 1, Len(text)) = suffix

RECURSIVE Remove(_, _)
\* text.replace(word, "")
Remove(word, text) ==
    IF Len(text) < Len(word) THEN text
    ELSE IF startswith(text, word)
         THEN Remove(word, SubSeq(text, Len(word) + 1, Len(text)))
         ELSE SubSeq(text, 1, 1) \o Remove(word, SubSeq(text, 2, Len(text)))

Whitespace == {" ", "\n", "\t", "\r"}

RECURSIVE lstrip(_)
lstrip(text) ==
    IF Len(text) > 0 /\ SubSeq(text, 1, 1) \in Whitespace
    THEN lstrip(SubSeq(text, 2, Len(text))) ELSE text

RECURSIVE rstrip(_)
rstrip(text) ==
    IF Len(text) > 0 /\ SubSeq(text, Len(text), Len(text)) \in Whitespace
    THEN rstrip(SubSeq(text, 1, Len(text) - 1)) ELSE text

\* text.strip()
strip(text) == rstrip(lstrip(text))

\* lines 31-35
cleaned_text(text) ==
    LET bare == strip(Remove(Fence, Remove(Fence \o "java", text)))
        opened == IF ~startswith(bare, "/**") THEN "/**\n * " \o bare ELSE bare
    IN  IF ~endswith(opened, "*/") THEN opened \o "\n */" ELSE opened

\* what a generate_content call does
Raises == [raises |-> TRUE, text |-> None]
Responds(text) == [raises |-> FALSE, text |-> text]

ApiOutcomes ==
    {Raises, Responds(""), Responds("Doc."), Responds("/** Doc. */"),
     Responds(Fence \o "java\n/** Doc.\n" \o Fence \o "\n")}

\* a call of get_llm_comment, before its first statement
llm_call(client, element_type, num_retries) ==
    [pc |-> "called", client |-> client, element_type |-> element_type,
     num_retries |-> num_retries, attempt |-> 0, calls |-> 0, waits |-> <<>>,
     responses |-> <<>>, comment |-> None]

\* a bug: the loop is entered without a client
llm_enter_without_client_check(call) == [call EXCEPT !.pc = "loop"]

\* lines 18-20
llm_enter(call) ==
    IF ~call.client
    THEN [call EXCEPT !.pc = "returned",
                      !.comment = "/**\n * LLM not configured. Placeholder for "
                                  \o call.element_type \o ".\n */"]
    ELSE [call EXCEPT !.pc = "loop"]

\* a bug: a response with an empty text is returned as the comment
llm_attempt_accepts_empty_text(call, outcome) ==
    LET made == [call EXCEPT !.calls = @ + 1, !.responses = Append(@, outcome)]
    IN  IF ~outcome.raises /\ outcome.text # None
        THEN [made EXCEPT !.pc = "returned", !.comment = cleaned_text(outcome.text)]
        ELSE [made EXCEPT !.attempt = @ + 1,
                          !.waits = IF call.attempt < call.num_retries - 1
                                    THEN Append(@, initial_retry_delay
                                                   * Pow(2, call.attempt))
                                    ELSE @]

\* a bug: the loop sleeps after its last attempt too
llm_attempt_waits_after_last(call, outcome) ==
    LET made == [call EXCEPT !.calls = @ + 1, !.responses = Append(@, outcome)]
    IN  IF ~outcome.raises /\ TruthyStr(outcome.text)
        THEN [made EXCEPT !.pc = "returned", !.comment = cleaned_text(outcome.text)]
        ELSE [made EXCEPT !.attempt = @ + 1,
                          !.waits = Append(@, initial_retry_delay * Pow(2, call.attempt))]

\* lines 21-43: one iteration of the loop, with what generate_content did
llm_attempt(call, outcome) ==
    LET made == [call EXCEPT !.calls = @ + 1, !.responses = Append(@, outcome)]
    IN  IF ~outcome.raises /\ TruthyStr(outcome.text)
        THEN [made EXCEPT !.pc = "returned", !.comment = cleaned_text(outcome.text)]
        ELSE [made EXCEPT !.attempt = @ + 1,
                          !.waits = IF call.attempt < call.num_retries - 1
                                    THEN Append(@, initial_retry_delay
                                                   * Pow(2, call.attempt))
                                    ELSE @]

\* lines 45-46: the loop has run out
llm_give_up(call) ==
    [call EXCEPT !.pc = "returned",
                 !.comment = "/**\n * Failed to generate comment for this "
                             \o call.element_type \o " after multiple retries.\n */"]

ElementTypes == {"class", "method"}

InitLlm ==
    /\ pc = "llm"
    /\ llm \in {llm_call(client, element_type, num_retries) :
                   client \in BOOLEAN, element_type \in ElementTypes,
                   num_retries \in (0..MaxRetries) \cup {DefaultNumRetries}}
    /\ annotation = NoAnnotation /\ fmt = NoFmt /\ files_written = <<>>
    /\ rebuilt = NotBuilt
    /\ NoSpan
    /\ NoSnippet
    /\ NoExtraction
    /\ NoDiagram
    /\ NoBatch

LlmFrame ==
    /\ UNCHANGED <<annotation, fmt, files_written, rebuilt>>
    /\ UNCHANGED <<pc, node, span, snip, snippet, file, project_class_index, parsed,
                   all_parsed_data, packages, relationships, buffer, diagram,
                   java_files, cursor>>

\* get_llm_comment(client, code_snippet, element_type, num_retries=...)
GetLlmComment ==
    /\ llm.pc = "called"
    /\ llm' = llm_enter(llm)
    /\ LlmFrame

\* for attempt in range(num_retries): one iteration
Attempt ==
    /\ llm.pc = "loop"
    /\ llm.attempt < llm.num_retries
    /\ \E outcome \in ApiOutcomes : llm' = llm_attempt(llm, outcome)
    /\ LlmFrame

GiveUp ==
    /\ llm.pc = "loop"
    /\ llm.attempt >= llm.num_retries
    /\ llm' = llm_give_up(llm)
    /\ LlmFrame

NextLlm == GetLlmComment \/ Attempt \/ GiveUp

SpecLlm == InitLlm /\ [][NextLlm]_vars

\* a generate_content call returns or raises, and a sleep ends
SpecLlmFair == SpecLlm /\ WF_vars(NextLlm)

----------------------------------------------------------------------------
(* Claims about get_llm_comment *)

Returned == llm.pc = "returned"

Contains(word, text) == Occurrences(word, text) >= 1

\* the call raised, or its response has no text
FailedAttempt(outcome) == outcome.raises \/ outcome.text \in {None, ""}

AllFailed(outcomes) == \A k \in 1..Len(outcomes) : FailedAttempt(outcomes[k])

\* C23: without a client get_llm_comment calls the model zero times and
\* waits zero times, and returns a placeholder that holds 'LLM not
\* configured' and the element type.
C23_NoClientNoCallsNoWaits ==
    ~llm.client =>
        /\ llm.calls = 0
        /\ llm.waits = <<>>
        /\ Returned =>
              /\ Contains("LLM not configured", llm.comment)
              /\ Contains(llm.element_type, llm.comment)

C23_Witness ==
    /\ Returned
    /\ ~llm.client
    /\ llm.element_type = "method"
    /\ llm.num_retries = DefaultNumRetries
    /\ llm.comment = "/**\n * LLM not configured. Placeholder for method.\n */"

\* with a client: at most num_retries calls are made; every call before the
\* last one made failed (raised, or had no text), so the loop stops at the
\* first response with a text; after num_retries failures the comment is
\* the 'Failed to generate comment' placeholder naming the element type
BoundedRetry ==
    llm.client =>
        /\ llm.calls = Len(llm.responses)
        /\ llm.calls <= llm.num_retries
        /\ AllFailed(SubSeq(llm.responses, 1, llm.calls - 1))
        /\ ~Returned => AllFailed(llm.responses)
        /\ Returned =>
              IF AllFailed(llm.responses)
              THEN /\ llm.calls = llm.num_retries
                   /\ Contains("Failed to generate comment", llm.comment)
                   /\ Contains(llm.element_type, llm.comment)
              ELSE /\ ~Contains("Failed to generate comment", llm.comment)
                   /\ Contains("Doc.", llm.comment)

\* C26: get_llm_comment returns, after at most num_retries model calls; it
\* stops at the first response with a non-empty text; a raised exception and
\* an empty response both count as a failed attempt; after num_retries
\* failures it returns the 'Failed to generate comment' placeholder naming
\* the element type.
C26_BoundedRetryTerminates == []BoundedRetry /\ <>Returned

\* two failures, an exception and an empty response, then a text
C26_Witness ==
    /\ Returned
    /\ llm.client
    /\ llm.num_retries = 3
    /\ llm.responses = <<Raises, Responds(""), Responds("Doc.")>>
    /\ llm.calls = 3
    /\ llm.comment = "/**\n * Doc.\n */"

\* a wait follows each failed attempt but the last one the loop allows, and
\* nothing else; the k-th wait (after attempt k-1) is 2 * 2^(k-1) seconds
BackoffSchedule ==
    /\ Len(llm.waits) =
          Cardinality({k \in 1..Len(llm.responses) :
                          FailedAttempt(llm.responses[k]) /\ k < llm.num_retries})
    /\ \A k \in 1..Len(llm.waits) : llm.waits[k] = 2 * Pow(2, k - 1)

\* every one of the num_retries >= 1 attempts failed
Exhausted ==
    /\ Returned
    /\ llm.num_retries >= 1
    /\ llm.calls = llm.num_retries
    /\ AllFailed(llm.responses)

\* C27 (as stated): waits follow only failed non-last attempts; the wait
\* after attempt k is 2 * 2^k seconds; over n failed attempts the total is
\* 2 * (2^(n-1) - 1) seconds, which is 510 seconds for the default n = 8.
C27_BackoffTotals510ByDefault ==
    llm.client =>
        /\ BackoffSchedule
        /\ Exhausted => Sum(llm.waits) = 2 * (Pow(2, llm.num_retries - 1) - 1)
        /\ Exhausted /\ llm.num_retries = DefaultNumRetries => Sum(llm.waits) = 510

\* C27 (amended): the same, with a total of 254 seconds for the default n = 8.
C27_BackoffTotals254ByDefault ==
    llm.client =>
        /\ BackoffSchedule
        /\ Exhausted => Sum(llm.waits) = 2 * (Pow(2, llm.num_retries - 1) - 1)
        /\ Exhausted /\ llm.num_retries = DefaultNumRetries => Sum(llm.waits) = 254

\* the default eight attempts all failed: seven waits, none after the last
C27_Witness ==
    /\ Exhausted
    /\ llm.client
    /\ llm.num_retries = DefaultNumRetries
    /\ llm.waits = <<2, 4, 8, 16, 32, 64, 128>>
    /\ Contains("Failed to generate comment", llm.comment)

----------------------------------------------------------------------------
(* llm_handler.py: generate_comments_for_structure *)

\* get_llm_comment run to its return; its k-th generate_content call does
\* script[k]
RECURSIVE llm_run(_, _)
llm_run(call, script) ==
    IF call.pc = "returned" THEN call
    ELSE IF call.pc = "called" THEN llm_run(llm_enter(call), script)
    ELSE IF call.attempt < call.num_retries
         THEN llm_run(llm_attempt(call, script[call.attempt + 1]), script)
         ELSE llm_run(llm_give_up(call), script)

\* get_llm_comment(client, code_snippet, element_type), with the default
\* num_retries
get_llm_comment(client, element_type, script) ==
    llm_run(llm_call(client, element_type, DefaultNumRetries), script).comment

\* what the client does during one get_llm_comment call: always raise,
\* answer at once, or answer with a text after an empty response
Scripts ==
    <<[k \in 1..DefaultNumRetries |-> Raises],
      [k \in 1..DefaultNumRetries |-> Responds("Doc.")],
      [k \in 1..DefaultNumRetries |->
          IF k = 1 THEN Responds("") ELSE Responds("/** Doc. */")]>>

\* the script of the k-th get_llm_comment call of a run
ScriptOfCall(plan, k) == Scripts[((plan + k) % Len(Scripts)) + 1]

\* info['comment'] = comment
with_comment(info, comment) ==
    [key \in DOMAIN info \cup {"comment"} |->
        IF key = "comment" THEN comment ELSE info[key]]

\* lines 58-61, from the i-th class on; calls counts the get_llm_comment calls
RECURSIVE comment_classes(_, _, _, _, _)
comment_classes(classes, client, plan, i, calls) ==
    IF i > Len(classes) THEN [classes |-> classes, calls |-> calls]
    ELSE LET class_info == with_comment(classes[i],
                               get_llm_comment(client, "class", ScriptOfCall(plan, calls + 1)))
             methods == [j \in 1..Len(class_info.methods) |->
                            with_comment(class_info.methods[j],
                                get_llm_comment(client, "method",
                                                ScriptOfCall(plan, calls + 1 + j)))]
         IN  comment_classes([classes EXCEPT ![i] = [class_info EXCEPT !.methods = methods]],
                             client, plan, i + 1, calls + 1 + Len(methods))

\* a bug: the methods of a class get no comment
generate_comments_for_structure_classes_only(parsed_structure, client, plan) ==
    IF ~client THEN [returned |-> parsed_structure, calls |-> 0]
    ELSE [returned |->
             [parsed_structure EXCEPT !.classes =
                 [i \in 1..Len(parsed_structure.classes) |->
                     with_comment(parsed_structure.classes[i],
                                  get_llm_comment(client, "class", ScriptOfCall(plan, i)))]],
          calls |-> Len(parsed_structure.classes)]

\* lines 49-63: the structure returned, and the get_llm_comment calls made
generate_comments_for_structure(parsed_structure, client, plan) ==
    IF ~client THEN [returned |-> parsed_structure, calls |-> 0]
    ELSE LET done == comment_classes(parsed_structure.classes, client, plan, 1, 0)
         IN  [returned |-> [parsed_structure EXCEPT !.classes = done.classes],
              calls |-> done.calls]

\* a method entry as parse_methods builds it, and a class entry holding some
MethodInfo(name, start_line) ==
    [name |-> name, start_line |-> start_line, modifiers |-> {"public"},
     code_snippet |-> SourceLine(start_line)]

ClassWithMethods(name, start_line, methods) ==
    [ClassInfo(name, None, <<>>, {}) EXCEPT !.start_line = start_line,
                                            !.methods = methods]

\* parsed structures: up to MaxTypes classes of up to MaxMembers methods each
CommentStructures ==
    {[file_path |-> "src/F.java", package |-> "com.example", classes |-> classes] :
        classes \in SeqsUpTo(
            {ClassWithMethods(name, 1, [j \in 1..count |-> MethodInfo("m" \o ToString(j), j + 1)]) :
                name \in TopNames, count \in 0..MaxMembers},
            MaxTypes)}

InitComments ==
    /\ pc = "comments"
    /\ parsed \in CommentStructures
    /\ annotation \in {[client |-> client, calls |-> 0, returned |-> NotParsed] :
                          client \in BOOLEAN}
    /\ file = NoFile /\ project_class_index = <<>>
    /\ llm = NoLlm /\ fmt = NoFmt /\ files_written = <<>> /\ rebuilt = NotBuilt
    /\ NoSpan
    /\ NoSnippet
    /\ NoDiagram
    /\ NoBatch

\* generate_comments_for_structure(parsed_structure, client): parsed is the
\* structure as handed over, annotation.returned the structure as returned
GenerateCommentsForStructure ==
    /\ pc = "comments"
    /\ \E plan \in 1..Len(Scripts) :
          LET call == generate_comments_for_structure(parsed, annotation.client, plan)
          IN  annotation' = [annotation EXCEPT !.calls = call.calls,
                                               !.returned = call.returned]
    /\ pc' = "commented"
    /\ UNCHANGED <<llm, fmt, files_written, rebuilt>>
    /\ UNCHANGED <<node, span, snip, snippet, file, project_class_index, parsed,
                   all_parsed_data, packages, relationships, buffer, diagram,
                   java_files, cursor>>

NextComments == GenerateCommentsForStructure

SpecComments == InitComments /\ [][NextComments]_vars

----------------------------------------------------------------------------
(* Claims about generate_comments_for_structure *)

Commented == pc = "commented"

\* the entry now has a comment, and every field it had has the value it had
\* (for a class, but for its methods, which are compared one by one)
OnlyCommentAdded(before, after) ==
    /\ DOMAIN after = DOMAIN before \cup {"comment"}
    /\ Contains("/**", after.comment)
    /\ \A key \in DOMAIN before \ {"methods", "comment"} : after[key] = before[key]

\* C22: with a client, generate_comments_for_structure sets 'comment' on
\* every class entry and every method entry, calls get_llm_comment once per
\* class and once per method, and changes no other field; with no client it
\* returns the structure unchanged, without a call.
C22_CommentOnEveryClassAndMethod ==
    Commented =>
        LET after == annotation.returned
        IN  IF annotation.client
            THEN /\ \A key \in DOMAIN parsed \ {"classes"} : after[key] = parsed[key]
                 /\ DOMAIN after = DOMAIN parsed
                 /\ Len(after.classes) = Len(parsed.classes)
                 /\ \A i \in 1..Len(parsed.classes) :
                       /\ OnlyCommentAdded(parsed.classes[i], after.classes[i])
                       /\ Len(after.classes[i].methods) = Len(parsed.classes[i].methods)
                       /\ \A j \in 1..Len(parsed.classes[i].methods) :
                             OnlyCommentAdded(parsed.classes[i].methods[j],
                                              after.classes[i].methods[j])
                 /\ annotation.calls =
                       Len(parsed.classes)
                       + Sum([i \in 1..Len(parsed.classes) |->
                                 Len(parsed.classes[i].methods)])
            ELSE after = parsed /\ annotation.calls = 0

\* two classes, the first with two methods: four calls, the first answered
\* after an empty response, the second (a method) never
C22_Witness ==
    /\ Commented
    /\ annotation.client
    /\ Len(parsed.classes) = 2
    /\ Len(parsed.classes[1].methods) = 2
    /\ Len(parsed.classes[2].methods) = 0
    /\ annotation.calls = 4
    /\ annotation.returned.classes[1].comment = "/** Doc. */"
    /\ annotation.returned.classes[1].methods[1].comment =
          "/**\n * Failed to generate comment for this method after multiple retries.\n */"
    /\ annotation.returned.classes[1].methods[2].comment = "/**\n * Doc.\n */"
    /\ "comment" \in DOMAIN annotation.returned.classes[2]

----------------------------------------------------------------------------
(* comment_inserter.py: create_commented_file.  Texts are strings, read    *)
(* and built character by character.                                       *)

\* the position of the first / the last occurrence of a character, or 0
first_index(text, ch) ==
    IF \E i \in 1..Len(text) : SubSeq(text, i, i) = ch
    THEN CHOOSE i \in 1..Len(text) :
            /\ SubSeq(text, i, i) = ch
            /\ \A j \in 1..(i - 1) : SubSeq(text, j, j) # ch
    ELSE 0

last_index(text, ch) ==
    IF \E i \in 1..Len(text) : SubSeq(text, i, i) = ch
    THEN CHOOSE i \in 1..Len(text) :
            /\ SubSeq(text, i, i) = ch
            /\ \A j \in (i + 1)..Len(text) : SubSeq(text, j, j) # ch
    ELSE 0

RECURSIVE split(_, _)
\* text.split(sep), for a separator of one character
split(text, sep) ==
    LET cut == first_index(text, sep)
    IN  IF cut = 0 THEN <<text>>
        ELSE <<SubSeq(text, 1, cut - 1)>> \o split(SubSeq(text, cut + 1, Len(text)), sep)

\* text.replace(old, new), for characters
replace_char(text, old, new) == JoinWith(new, split(text, old))

\* Path(path).stem: the last component, without its last suffix
stem(path) ==
    LET name == SubSeq(path, last_index(path, "/") + 1, Len(path))
    IN  IF last_index(name, ".") > 1 THEN SubSeq(name, 1, last_index(name, ".") - 1)
        ELSE name

\* lines 10-13, below output_dir
output_file_path(structure) ==
    replace_char(structure.package, ".", "/") \o "/" \o stem(structure.file_path)
    \o "_commented.java"

RECURSIVE leading_spaces(_)
\* len(line) - len(line.lstrip(' '))
leading_spaces(line) ==
    IF Len(line) > 0 /\ SubSeq(line, 1, 1) = " "
    THEN 1 + leading_spaces(SubSeq(line, 2, Len(line))) ELSE 0

RECURSIVE Spaces(_)
\* ' ' * n
Spaces(n) == IF n <= 0 THEN "" ELSE " " \o Spaces(n - 1)

RECURSIVE record_comments(_, _, _)
\* if 'comment' in info: comment_map[info['start_line']] = info['comment'],
\* for the entries of a list in order
record_comments(comment_map, entries, k) ==
    IF k > Len(entries) THEN comment_map
    ELSE record_comments(
             IF "comment" \in DOMAIN entries[k]
             THEN SetItem(comment_map, entries[k].start_line, entries[k].comment)
             ELSE comment_map,
             entries, k + 1)

RECURSIVE comment_map_of(_, _, _)
\* lines 21-27: each class, then its methods
comment_map_of(comment_map, classes, i) ==
    IF i > Len(classes) THEN comment_map
    ELSE comment_map_of(
             record_comments(record_comments(comment_map, <<classes[i]>>, 1),
                             classes[i].methods, 1),
             classes, i + 1)

\* a bug: the comment is written as it is, not indented like its line
indented_comment_without_indentation(comment, line) == comment

\* lines 33-35
indented_comment(comment, line) ==
    LET indentation == Spaces(leading_spaces(line))
        clines == split(comment, "\n")
    IN  JoinWith("\n", [k \in 1..Len(clines) |-> indentation \o clines[k]])

RECURSIVE write_lines(_, _, _)
\* lines 30-37: what the loop writes from the i-th line on
write_lines(lines, comment_map, i) ==
    IF i > Len(lines) THEN ""
    ELSE (IF i \in DOMAIN comment_map
          THEN indented_comment(comment_map[i], lines[i]) \o "\n" ELSE "")
         \o lines[i] \o write_lines(lines, comment_map, i + 1)

\* the output directory after create_commented_file: opening the original
\* raises for a file that cannot be read, and the except clause logs it
create_commented_file(written, structure, java_file) ==
    IF java_file.parse = "unreadable" THEN written
    ELSE SetItem(written, output_file_path(structure),
                 write_lines(java_file.original_lines,
                             comment_map_of(<<>>, structure.classes, 1), 1))

\* comments, by their lines
ClassCommentLines == <<"/**", " * c", " */">>
MethodCommentLines(j) == <<"/** m" \o ToString(j) \o " */">>

\* an entry with a start line, with or without a comment
Entry(info, start_line, commented, comment_lines) ==
    IF commented
    THEN with_comment([info EXCEPT !.start_line = start_line],
                      JoinWith("\n", comment_lines))
    ELSE [info EXCEPT !.start_line = start_line]

\* one class, on line 0 (no position) or 1, with up to MaxMembers methods on
\* lines 1..MaxLine+1; any of them may have a comment
CommentedStructures ==
    {[file_path |-> "src/F.java", package |-> "com.example",
      classes |-> <<[Entry(ClassWithMethods("A", 1, <<>>), class_line, class_commented,
                           ClassCommentLines)
                     EXCEPT !.methods =
                        [j \in 1..Len(methods) |->
                            Entry(MethodInfo("m", 1), methods[j][1], methods[j][2],
                                  MethodCommentLines(j))]]>>] :
        class_line \in {0, 1}, class_commented \in BOOLEAN,
        methods \in SeqsUpTo((1..(MaxLine + 1)) \X BOOLEAN, MaxMembers)}

\* the original file: three lines, the second indented with spaces or with
\* a tab, the last with or without a line end; or a file that cannot be read
CommentedSources ==
    {[file_path |-> "src/F.java", parse |-> "ok", tree |-> NoNode,
      original_lines |-> lines] :
        lines \in {<<"class A {\n", "  void m() {}\n", "}\n">>,
                   <<" class A {\n", "\tvoid m() {}\n", "    }">>}}
    \cup {[file_path |-> "src/F.java", parse |-> "unreadable", tree |-> NoNode,
           original_lines |-> <<>>]}

InitInsert ==
    /\ pc = "insert"
    /\ annotation \in {[client |-> TRUE, calls |-> 0, returned |-> structure] :
                          structure \in CommentedStructures}
    /\ file \in CommentedSources
    /\ files_written = <<>>
    /\ project_class_index = <<>> /\ parsed = NotParsed
    /\ llm = NoLlm /\ fmt = NoFmt /\ rebuilt = NotBuilt
    /\ NoSpan
    /\ NoSnippet
    /\ NoDiagram
    /\ NoBatch

\* create_commented_file(parsed_structure_with_comments, output_dir)
CreateCommentedFile ==
    /\ pc = "insert"
    /\ files_written' = create_commented_file(files_written, annotation.returned, file)
    /\ pc' = "inserted"
    /\ UNCHANGED <<llm, annotation, fmt, rebuilt>>
    /\ UNCHANGED <<node, span, snip, snippet, file, project_class_index, parsed,
                   all_parsed_data, packages, relationships, buffer, diagram,
                   java_files, cursor>>

NextInsert == CreateCommentedFile

SpecInsert == InitInsert /\ [][NextInsert]_vars

----------------------------------------------------------------------------
(* Claims about create_commented_file *)

Written == pc = "inserted" /\ DOMAIN files_written # {}

\* the class and method entries, in the order they are recorded
RecordedEntries ==
    Concat([i \in 1..Len(annotation.returned.classes) |->
               <<annotation.returned.classes[i]>>
               \o annotation.returned.classes[i].methods])

\* the entries with a comment that start on line n
CommentedAt(n) ==
    {k \in 1..Len(RecordedEntries) :
        /\ "comment" \in DOMAIN RecordedEntries[k]
        /\ RecordedEntries[k].start_line = n}

\* the lines of a comment of the family
LinesOfComment(comment) ==
    CHOOSE comment_lines \in
        {ClassCommentLines} \cup {MethodCommentLines(j) : j \in 1..(MaxMembers + 1)} :
        JoinWith("\n", comment_lines) = comment

\* how many spaces a line starts with
Indent(line) ==
    CHOOSE n \in 0..Len(line) :
        /\ \A i \in 1..n : SubSeq(line, i, i) = " "
        /\ n < Len(line) => SubSeq(line, n + 1, n + 1) # " "

\* what goes before line n: nothing, or the lines of the comment recorded
\* last for n, each after the indentation of line n and each ended
InsertedBefore(n) ==
    IF CommentedAt(n) = {} THEN ""
    ELSE LET comment_lines ==
                 LinesOfComment(RecordedEntries[SetMax(CommentedAt(n))].comment)
         IN  Join([k \in 1..Len(comment_lines) |->
                      Spaces(Indent(Lines[n])) \o comment_lines[k] \o "\n"])

\* C28: the written file is the original's lines, each once and in order,
\* with nothing added but, right before each line whose 1-based number is
\* the start_line of a class or method entry with a comment, one comment
\* (the last recorded for that number), each of its lines after that line's
\* leading-space indentation; no comment goes in for start_line 0.
C28_CommentedFilePreservesSource ==
    Written =>
        /\ DOMAIN files_written = {"com/example/F_commented.java"}
        /\ files_written["com/example/F_commented.java"] =
              Join([n \in 1..Len(Lines) |-> InsertedBefore(n) \o Lines[n]])

\* the class has no position (start_line 0) and a comment; two methods with
\* comments both start on line 2, which is indented by two spaces
C28_Witness ==
    /\ Written
    /\ annotation.returned.classes[1].start_line = 0
    /\ "comment" \in DOMAIN annotation.returned.classes[1]
    /\ CommentedAt(2) = {2, 3}
    /\ files_written["com/example/F_commented.java"] =
          "class A {\n  /** m2 */\n  void m() {}\n}\n"

============================================================================
